---- MODULE Spec2Model ----
(***************************************************************************)
(* The streaming translators of openproxy:                                 *)
(*   convertOpenAIStreamToAnthropicSSE  (src/providers/anthropic/sse.ts)   *)
(*   convertOpenAIStreamToGeminiSSE     (src/providers/gemini/sse.ts)      *)
(*   the pump inside handleStream       (src/providers/gemini/handler.ts)  *)
(* Each is an async pump: it reads byte blocks of the upstream OpenAI      *)
(* stream, splits them into lines, maps every `data: ` line and awaits one *)
(* client write per output event.  A step of the model is the code that    *)
(* runs between two awaits; the client may disconnect between any two      *)
(* steps, after which every write rejects.                                 *)
(*                                                                         *)
(* Strings that the code only copies are TLA+ strings.  The argument text  *)
(* of a tool call, which the Gemini pump concatenates and parses, is a     *)
(* sequence of JSON tokens, so that concatenation is \o and JSON.parse is  *)
(* the parser ParseJSON below.  For a tool-call delta the code reads id,   *)
(* function.name and function.arguments only through `x || ''` or a        *)
(* truthiness test, so an absent field and an empty one are the same       *)
(* value here ("" or << >>).                                               *)
(***************************************************************************)
EXTENDS Integers, Sequences, FiniteSets, TLC

\* ------------------------------------------------------------------ bounds
\* lines the upstream delivers in one stream
MaxLines == 4
\* complete lines one reader.read() can deliver
MaxLinesPerRead == 2
\* largest tool-call index the upstream uses
MaxIndex == 1

\* ------------------------------------------------------------ JS values
JSNull == "null"
Undefined == "undefined"

\* ------------------------------------------------ JSON text of arguments
FragA == <<"{", "a", ":">>
FragB == <<"1", ",">>
FragC == <<"b", ":", "2", "}">>
Fragments == {FragA, FragB, FragC}

JSONKeys == {"a", "b"}
JSONNumbers == {"1", "2"}

EmptyObject == [t |-> "object", members |-> [k \in {} |-> ""]]

\* JSON.parse on a token sequence: a number, or a flat object of numbers.
\* st is the parser state, i the next token, m the members read so far,
\* k the pending key.  ok = FALSE is the SyntaxError JSON.parse throws.
RECURSIVE ParseFrom(_, _, _, _, _)
ParseFrom(toks, st, i, m, k) ==
    IF i > Len(toks)
    THEN IF st = "end_number" THEN [ok |-> TRUE, value |-> [t |-> "number", lit |-> k]]
         ELSE IF st = "end_object" THEN [ok |-> TRUE, value |-> [t |-> "object", members |-> m]]
         ELSE [ok |-> FALSE, value |-> EmptyObject]
    ELSE LET tok == toks[i] IN
         CASE st = "value" /\ tok \in JSONNumbers -> ParseFrom(toks, "end_number", i + 1, m, tok)
           [] st = "value" /\ tok = "{" -> ParseFrom(toks, "open", i + 1, m, k)
           [] st = "open" /\ tok = "}" -> ParseFrom(toks, "end_object", i + 1, m, k)
           [] st \in {"open", "comma"} /\ tok \in JSONKeys -> ParseFrom(toks, "key", i + 1, m, tok)
           [] st = "key" /\ tok = ":" -> ParseFrom(toks, "colon", i + 1, m, k)
           [] st = "colon" /\ tok \in JSONNumbers ->
                ParseFrom(toks, "member", i + 1, (k :> tok) @@ m, k)
           [] st = "member" /\ tok = "," -> ParseFrom(toks, "comma", i + 1, m, k)
           [] st = "member" /\ tok = "}" -> ParseFrom(toks, "end_object", i + 1, m, k)
           [] OTHER -> [ok |-> FALSE, value |-> EmptyObject]

ParseJSON(toks) == ParseFrom(toks, "value", 1, [x \in {} |-> ""], "")

\* ------------------------------------------------------ upstream lines
\* A tool-call delta of delta.tool_calls.
Indexes == 0..MaxIndex
ToolStart(i) == [index |-> i, id |-> IF i = 0 THEN "call_0" ELSE "call_n", name |-> "f", arguments |-> << >>]
ToolFrag(i, frag) == [index |-> i, id |-> "", name |-> "", arguments |-> frag]
ToolCallDeltas ==
    {ToolStart(i) : i \in Indexes \ {0}} \cup {ToolFrag(MaxIndex, f) : f \in Fragments}

\* A parsed chunk.  choices: "absent" (no choices property), "empty" ([]),
\* "one" (the first choice; the pumps read no other).  has_delta: the first
\* choice has a delta property.  content_kind: delta.content is undefined,
\* null or a string (content).  finish_reason: JSNull or a string.
Chunk(ch, hd, ck, c, tcs, fr) ==
    [kind |-> "chunk", choices |-> ch, has_delta |-> hd, content_kind |-> ck,
     content |-> c, tool_calls |-> tcs, finish_reason |-> fr]


RoleOnly == Chunk("one", TRUE, Undefined, "", << >>, JSNull)
TextChunks ==
    {Chunk("one", TRUE, "string", "Hi", << >>, JSNull),
     Chunk("one", TRUE, "string", "", << >>, JSNull),
     Chunk("one", TRUE, JSNull, "", << >>, JSNull),
     RoleOnly}
ToolChunks == {Chunk("one", TRUE, Undefined, "", <<tc>>, JSNull) : tc \in ToolCallDeltas}
FinishChunks == {Chunk("one", TRUE, Undefined, "", << >>, "stop")}
MixedChunks ==
    {Chunk("one", TRUE, "string", "Hi", <<ToolStart(0), ToolFrag(0, FragA)>>, "length"),
     Chunk("one", TRUE, Undefined, "", <<ToolFrag(MaxIndex, FragC)>>, "tool_calls"),
     Chunk("one", TRUE, "string", "", << >>, "stop")}
OddChunks ==
    {Chunk("absent", FALSE, Undefined, "", << >>, JSNull),
     Chunk("empty", FALSE, Undefined, "", << >>, JSNull),
     Chunk("one", FALSE, Undefined, "", << >>, JSNull),
     Chunk("one", FALSE, Undefined, "", << >>, "stop"),
     Chunk("one", TRUE, Undefined, "", << >>, "")}
Chunks == TextChunks \cup ToolChunks \cup FinishChunks \cup MixedChunks \cup OddChunks

\* A line of the upstream body: one that does not start with `data: `; one
\* whose payload is `[DONE]` or empty (one test in the code: `data ===
\* '[DONE]' || !data`); a payload that is not JSON; or a payload that parses
\* to a chunk.
OtherLine == [kind |-> "other"]
DoneLine == [kind |-> "done"]
BadJSON == [kind |-> "malformed"]
Lines == {OtherLine, DoneLine, BadJSON} \cup Chunks

\* The number of complete lines one read adds to `lines`; the text of a
\* line is drawn when the for loop reaches it, since the pump never looks
\* ahead.
BatchSizes == 0..MaxLinesPerRead

\* ------------------------------------------------------ Anthropic events
MessageStart ==
    [type |-> "message_start", content |-> << >>, input_tokens |-> 0, output_tokens |-> 0]
TextBlockStart == [type |-> "content_block_start", index |-> 0, block |-> "text", text |-> ""]
ToolBlockStart(i, id, name) ==
    [type |-> "content_block_start", index |-> i, block |-> "tool_use", id |-> id, name |-> name]
TextDelta(text) ==
    [type |-> "content_block_delta", index |-> 0, delta |-> "text_delta", text |-> text]
InputJsonDelta(i, json) ==
    [type |-> "content_block_delta", index |-> i, delta |-> "input_json_delta", partial_json |-> json]
ContentBlockStop == [type |-> "content_block_stop", index |-> 0]
MessageDelta(reason) == [type |-> "message_delta", stop_reason |-> reason, output_tokens |-> 0]
MessageStop == [type |-> "message_stop"]
ErrorEvent == [type |-> "error", message |-> "Stream error"]

\* a mapper that takes a filtered completion for a finished one
mapFilterAsEndTurn(reason) ==
    CASE reason = "stop" -> "end_turn"
      [] reason = "length" -> "max_tokens"
      [] reason \in {"function_call", "tool_calls"} -> "tool_use"
      [] reason = "content_filter" -> "end_turn"
      [] OTHER -> JSNull

\* anthropic/utils.ts mapFinishReason
mapFinishReason(reason) ==
    CASE reason = "stop" -> "end_turn"
      [] reason = "length" -> "max_tokens"
      [] reason \in {"function_call", "tool_calls"} -> "tool_use"
      [] reason = "content_filter" -> JSNull
      [] OTHER -> JSNull

\* JS truthiness of a string-or-null value
Truthy(s) == s # JSNull /\ s # Undefined /\ s # ""

\* `toolCall.index || 0`
IndexOrZero(i) == IF i = 0 THEN 0 ELSE i

\* The events one tool-call delta contributes (sse.ts 114-120).
ToolCallEvents(tc) ==
    (IF tc.name # ""
     THEN <<ToolBlockStart(IndexOrZero(tc.index), tc.id, tc.name)>> ELSE << >>)
    \o (IF tc.arguments # << >>
        THEN <<InputJsonDelta(IndexOrZero(tc.index), tc.arguments)>> ELSE << >>)

RECURSIVE ToolCallsEvents(_)
ToolCallsEvents(tcs) ==
    IF tcs = << >> THEN << >> ELSE ToolCallEvents(Head(tcs)) \o ToolCallsEvents(Tail(tcs))

\* the terminal events with message_delta and message_stop exchanged
FinishEventsSwapped(reason) ==
    <<ContentBlockStop, MessageStop, MessageDelta(mapFinishReason(reason))>>

FinishEvents(reason) ==
    <<ContentBlockStop, MessageDelta(mapFinishReason(reason)), MessageStop>>

\* a mapper that tests `delta.content` for null and undefined instead of
\* truthiness
mapAnyStringContent(chunk) ==
    IF chunk.choices # "one" THEN << >>
    ELSE IF ~chunk.has_delta THEN << >>
    ELSE (IF chunk.content_kind = "string"
          THEN <<TextDelta(chunk.content)>> ELSE << >>)
         \o ToolCallsEvents(chunk.tool_calls)
         \o (IF Truthy(chunk.finish_reason) THEN FinishEvents(chunk.finish_reason) ELSE << >>)

\* anthropic/sse.ts mapOpenAIStreamChunkToAnthropic
mapOpenAIStreamChunkToAnthropic(chunk) ==
    IF chunk.choices # "one" THEN << >>
    ELSE IF ~chunk.has_delta THEN << >>
    ELSE (IF chunk.content_kind = "string" /\ chunk.content # ""
          THEN <<TextDelta(chunk.content)>> ELSE << >>)
         \o ToolCallsEvents(chunk.tool_calls)
         \o (IF Truthy(chunk.finish_reason) THEN FinishEvents(chunk.finish_reason) ELSE << >>)

\* -------------------------------------------------------- Gemini frames
\* a mapper without the case of tool_calls and function_call
mapToolCallsAsOther(reason) ==
    CASE reason = "stop" -> "STOP"
      [] reason = "length" -> "MAX_TOKENS"
      [] reason = "content_filter" -> "SAFETY"
      [] OTHER -> "OTHER"

GeminiFinishReason(reason) ==
    CASE reason = "stop" -> "STOP"
      [] reason = "length" -> "MAX_TOKENS"
      [] reason = "content_filter" -> "SAFETY"
      [] reason \in {"tool_calls", "function_call"} -> "STOP"
      [] OTHER -> "OTHER"

TextPart(text) == [text |-> text]
FunctionCallPart(index, id, name, args) ==
    [functionCall |-> [id |-> id, name |-> name, args |-> args], index |-> index]

\* A frame: the candidates of one GenerateContentResponse; the pumps build
\* one candidate per choice and the model has at most one choice.
Frame(parts, finishReason) ==
    [type |-> "frame", parts |-> parts, finishReason |-> finishReason]

\* `chunk.choices.map(...)`, `choice.delta.content`: a TypeError when choices
\* is absent or the choice has no delta.
GeminiMapThrows(chunk) ==
    \/ chunk.choices = "absent"
    \/ chunk.choices = "one" /\ ~chunk.has_delta

\* a mapper that tests `delta.content` for truthiness
mapTruthyContent(chunk) ==
    IF chunk.choices = "empty" THEN << >>
    ELSE <<Frame(IF chunk.content_kind = "string" /\ chunk.content # ""
                 THEN <<TextPart(chunk.content)>> ELSE << >>,
                 IF Truthy(chunk.finish_reason)
                 THEN GeminiFinishReason(chunk.finish_reason) ELSE Undefined)>>

\* gemini/sse.ts mapOpenAIStreamChunkToGemini: the candidates, a sequence of
\* frames-to-be (empty for `choices: []`).
mapOpenAIStreamChunkToGemini(chunk) ==
    IF chunk.choices = "empty" THEN << >>
    ELSE <<Frame(IF chunk.content_kind = "string" THEN <<TextPart(chunk.content)>> ELSE << >>,
                 IF Truthy(chunk.finish_reason)
                 THEN GeminiFinishReason(chunk.finish_reason) ELSE Undefined)>>

\* gemini/sse.ts 39: the chunk is written
HasTextFrame(chunk) ==
    LET candidates == mapOpenAIStreamChunkToGemini(chunk)
    IN  Len(candidates) > 0 /\ Len(candidates[1].parts) > 0

\* gemini/sse.ts 50-57: one tool-call delta into the buffer
BufferToolCall(buf, tc) ==
    IF tc.index \notin DOMAIN buf
    THEN (tc.index :> [id |-> tc.id, name |-> tc.name, arguments |-> tc.arguments]) @@ buf
    ELSE IF tc.arguments # << >>
    THEN [buf EXCEPT ![tc.index].arguments = @ \o tc.arguments]
    ELSE buf

RECURSIVE BufferToolCalls(_, _)
BufferToolCalls(buf, tcs) ==
    IF tcs = << >> THEN buf
    ELSE BufferToolCalls(BufferToolCall(buf, Head(tcs)), Tail(tcs))

\* gemini/sse.ts 48-58
BufferChunk(buf, chunk) ==
    IF chunk.choices = "one" THEN BufferToolCalls(buf, chunk.tool_calls) ELSE buf

\* `Object.keys(toolCallBuffer).map(Number).sort((a, b) => a - b)`
RECURSIVE SortedIndices(_)
SortedIndices(S) ==
    IF S = {} THEN << >>
    ELSE LET lo == CHOOSE x \in S : \A y \in S : x <= y
         IN  <<lo>> \o SortedIndices(S \ {lo})

\* gemini/sse.ts 65-72: the part of one buffered call
FlushPart(buf, index) ==
    LET parsed == ParseJSON(buf[index].arguments)
    IN  FunctionCallPart(index, buf[index].id, buf[index].name,
                         IF parsed.ok THEN parsed.value ELSE EmptyObject)

\* gemini/sse.ts 61-73
FlushParts(buf) ==
    LET indices == SortedIndices(DOMAIN buf)
    IN  [n \in 1..Len(indices) |-> FlushPart(buf, indices[n])]

\* gemini/sse.ts 60, 75: a flush frame is to be written for this chunk
NeedsFlush(buf, chunk) ==
    /\ chunk.choices = "one"
    /\ Truthy(chunk.finish_reason)
    /\ Len(FlushParts(buf)) > 0

FlushFrame(buf) == Frame(FlushParts(buf), "STOP")

\* gemini/handler.ts 180-195: the part of one buffered call.  The id is
\* injected into args as __tool_call_id and the part carries no id.
HandlerFlushPart(buf, index) ==
    LET parsed == ParseJSON(buf[index].arguments)
        args == IF parsed.ok THEN parsed.value ELSE EmptyObject
    IN  FunctionCallPart(index, Undefined, buf[index].name,
            [args EXCEPT !.members = ("__tool_call_id" :> buf[index].id) @@ @])

\* gemini/handler.ts 188: `args.__tool_call_id = ...` is a TypeError in a
\* module (strict code) when JSON.parse gave a number.
HandlerFlushThrows(buf) ==
    \E index \in DOMAIN buf :
        LET parsed == ParseJSON(buf[index].arguments)
        IN  parsed.ok /\ parsed.value.t # "object"

\* gemini/handler.ts 175-196
HandlerFlushParts(buf) ==
    LET indices == SortedIndices(DOMAIN buf)
    IN  [n \in 1..Len(indices) |-> HandlerFlushPart(buf, indices[n])]

HandlerFlushFrame(buf) == Frame(HandlerFlushParts(buf), "STOP")

\* gemini/handler.ts 155-156: `choice.delta.tool_calls` with no choice is a
\* TypeError (the chunk was mapped before, so a choice has a delta here).
HandlerBufferThrows(chunk) == chunk.choices # "one"

\* ------------------------------------------------------------ the pump
VARIABLES
    mode,            \* which translator runs: "anthropic" or "gemini"
    pc,              \* where the async pump is suspended
    clientOpen,      \* the client still reads the response body
    lines,           \* how many of `lines` the for loop has not yet handled
    delivered,       \* number of lines the upstream has delivered
    chunk,           \* the line the for loop took last (`line`, `data`, `chunk`), until the loop is left
    events,          \* anthropicEvents not yet written
    toolCallBuffer,  \* Gemini: index -> BufferedToolCall
    written,         \* events and frames the client was sent, in order
    failed,          \* events and frames whose writer.write rejected
    afterFail,       \* what the pump did after a write rejected: reads, lines, writes
    closed,          \* writer.close() was called
    uncaught,        \* an exception left the async function of the pump
    received,        \* history: the tool-call deltas the Gemini pumps buffered, in arrival order
    upstream,        \* the upstream body the reader holds: "open", "ended" or "errored"
    call,            \* one call of a mapper: the function, its argument, what it returned
    streams,         \* concurrent streams: the state of the pump of each
    buffers          \* concurrent streams: the toolCallBuffer objects

\* the state of one pump, and the state of what runs apart from it
pumpVars == <<mode, pc, clientOpen, lines, delivered, chunk, events, toolCallBuffer,
              written, failed, afterFail, closed, uncaught, received, upstream>>
apart == <<call, streams, buffers>>
vars == <<pumpVars, apart>>

\* "gemini" is gemini/sse.ts, "handler" the pump of gemini/handler.ts
Modes == {"anthropic", "gemini", "handler"}
NoChunk == OtherLine
EmptyBuffer == [i \in {} |-> 0]
NothingAfterFail == {}

\* no mapper is called and no other stream is open
NoCall == [fn |-> "none"]
NoStreams == << >>
Apart == call = NoCall /\ streams = NoStreams /\ buffers = NoStreams

\* a pump before its first step
PumpInit ==
    /\ mode \in Modes
    /\ pc = IF mode = "anthropic" THEN "message_start" ELSE "read"
    /\ clientOpen = TRUE
    /\ lines = 0
    /\ delivered = 0
    /\ chunk = NoChunk
    /\ events = << >>
    /\ toolCallBuffer = EmptyBuffer
    /\ written = << >>
    /\ failed = << >>
    /\ afterFail = NothingAfterFail
    /\ closed = FALSE
    /\ uncaught = FALSE
    /\ received = << >>
    /\ upstream = "open"

Init == Apart /\ PumpInit

\* What the pump does after a rejected write is recorded: "reads" of the
\* upstream, "lines" handled, "writes" attempted.
Count(what) == IF failed = << >> THEN afterFail ELSE afterFail \cup {what}

\* `await writer.write(...)`: resolves while the client reads, rejects after
\* it has gone.
WriteTo(e) ==
    IF clientOpen
    THEN written' = Append(written, e) /\ failed' = failed
    ELSE written' = written /\ failed' = Append(failed, e)

\* where the for loop goes after the current line
NextLine(rest) == IF rest = 0 THEN "read" ELSE "line"

\* The client closes the connection; the readable side is cancelled.
Disconnect ==
    /\ clientOpen
    /\ pc # "done"
    /\ clientOpen' = FALSE
    /\ UNCHANGED <<apart, upstream, mode, pc, lines, delivered, chunk, events, toolCallBuffer,
                   written, failed, afterFail, closed, uncaught, received>>

\* a pump that starts without writing message_start
WriteMessageStartSkipped ==
    /\ pc = "message_start"
    /\ pc' = "content_block_start"
    /\ UNCHANGED <<apart, upstream, mode, clientOpen, lines, delivered, chunk, events, toolCallBuffer,
                   written, failed, afterFail, closed, uncaught, received>>

\* anthropic/sse.ts 19-40
WriteMessageStart ==
    /\ pc = "message_start"
    /\ WriteTo(MessageStart)
    /\ pc' = IF clientOpen THEN "content_block_start" ELSE "catch"
    /\ afterFail' = Count("writes")
    /\ UNCHANGED <<apart, upstream, mode, clientOpen, lines, delivered, chunk, events, toolCallBuffer, closed, uncaught, received>>

\* anthropic/sse.ts 42-47
WriteBlockStart ==
    /\ pc = "content_block_start"
    /\ WriteTo(TextBlockStart)
    /\ pc' = IF clientOpen THEN "read" ELSE "catch"
    /\ afterFail' = Count("writes")
    /\ UNCHANGED <<apart, upstream, mode, clientOpen, lines, delivered, chunk, events, toolCallBuffer, closed, uncaught, received>>

\* `await reader.read()` resolves with a value: sse.ts 50-55 of both pumps.
ReadValue ==
    /\ pc = "read"
    /\ \E n \in BatchSizes :
        /\ delivered + n <= MaxLines
        /\ lines' = n
        /\ delivered' = delivered + n
        /\ pc' = NextLine(n)
    /\ afterFail' = Count("reads")
    /\ UNCHANGED <<apart, upstream, mode, clientOpen, chunk, events, toolCallBuffer, written, failed, closed, uncaught, received>>

\* `await reader.read()` resolves with done.
ReadDone ==
    /\ pc = "read"
    /\ pc' = "finally"
    /\ chunk' = NoChunk
    /\ afterFail' = Count("reads")
    /\ upstream' = "ended"
    /\ UNCHANGED <<apart, mode, clientOpen, lines, delivered, events, toolCallBuffer,
                   written, failed, closed, uncaught, received>>

\* `await reader.read()` rejects: the outer catch (anthropic 78, gemini 89).
ReadFault ==
    /\ pc = "read"
    /\ pc' = IF mode = "anthropic" THEN "catch" ELSE "finally"
    /\ chunk' = NoChunk
    /\ afterFail' = Count("reads")
    /\ upstream' = "errored"
    /\ UNCHANGED <<apart, mode, clientOpen, lines, delivered, events, toolCallBuffer,
                   written, failed, closed, uncaught, received>>

\* The line is not handed to a mapper: sse.ts 58-60 of both pumps, and the
\* inner catch for a payload JSON.parse rejects.
Skipped(line) == line.kind \in {"other", "done", "malformed"}

\* a pump whose JSON.parse is outside the try of the line: a malformed
\* payload reaches the outer catch
AnthropicLineParseEscapes ==
    /\ mode = "anthropic"
    /\ pc = "line"
    /\ \E line \in Lines :
        LET out == IF Skipped(line) THEN << >> ELSE mapOpenAIStreamChunkToAnthropic(line)
        IN  /\ lines' = lines - 1
            /\ chunk' = line
            /\ events' = out
            /\ pc' = IF line = BadJSON THEN "catch"
                     ELSE IF out = << >> THEN NextLine(lines - 1) ELSE "write_event"
    /\ afterFail' = Count("lines")
    /\ UNCHANGED <<apart, upstream, mode, clientOpen, delivered, toolCallBuffer, written, failed, closed, uncaught, received>>

\* anthropic/sse.ts 57-64: one line of the for loop, up to the first write.
AnthropicLine ==
    /\ mode = "anthropic"
    /\ pc = "line"
    /\ \E line \in Lines :
        LET out == IF Skipped(line) THEN << >> ELSE mapOpenAIStreamChunkToAnthropic(line)
        IN  /\ lines' = lines - 1
            /\ chunk' = line
            /\ events' = out
            /\ pc' = IF out = << >> THEN NextLine(lines - 1) ELSE "write_event"
    /\ afterFail' = Count("lines")
    /\ UNCHANGED <<apart, upstream, mode, clientOpen, delivered, toolCallBuffer, written, failed, closed, uncaught, received>>

\* a pump that writes the events of a chunk last first
AnthropicWriteEventLastFirst ==
    /\ pc = "write_event"
    /\ WriteTo(events[Len(events)])
    /\ events' = SubSeq(events, 1, Len(events) - 1)
    /\ pc' = IF ~clientOpen THEN "finally"
             ELSE IF Len(events) = 1 THEN NextLine(lines) ELSE "write_event"
    /\ chunk' = IF clientOpen THEN chunk ELSE NoChunk
    /\ afterFail' = Count("writes")
    /\ UNCHANGED <<apart, upstream, mode, clientOpen, lines, delivered, toolCallBuffer, closed, uncaught, received>>

\* anthropic/sse.ts 65-72: one event of the chunk; a rejected write returns.
AnthropicWriteEvent ==
    /\ pc = "write_event"
    /\ WriteTo(Head(events))
    /\ events' = Tail(events)
    /\ pc' = IF ~clientOpen THEN "finally"
             ELSE IF Tail(events) = << >> THEN NextLine(lines) ELSE "write_event"
    /\ chunk' = IF clientOpen THEN chunk ELSE NoChunk
    /\ afterFail' = Count("writes")
    /\ UNCHANGED <<apart, upstream, mode, clientOpen, lines, delivered, toolCallBuffer, closed, uncaught, received>>

\* an outer catch that only logs
AnthropicCatchSilent ==
    /\ pc = "catch"
    /\ pc' = "finally"
    /\ UNCHANGED <<apart, upstream, mode, clientOpen, lines, delivered, chunk, events, toolCallBuffer,
                   written, failed, afterFail, closed, uncaught, received>>

\* anthropic/sse.ts 78-85: the outer catch writes the error event.
AnthropicCatch ==
    /\ pc = "catch"
    /\ WriteTo(ErrorEvent)
    /\ pc' = "finally"
    /\ afterFail' = Count("writes")
    /\ UNCHANGED <<apart, upstream, mode, clientOpen, lines, delivered, chunk, events, toolCallBuffer, closed, uncaught, received>>

\* gemini/sse.ts 48-81 for the chunk in hand: buffer its tool calls, then
\* stop at the flush write if it carries a finish reason.
GeminiBufferAndFlush(c, rest) ==
    /\ toolCallBuffer' = BufferChunk(toolCallBuffer, c)
    /\ received' = received \o (IF c.choices = "one" THEN c.tool_calls ELSE << >>)
    /\ pc' = IF NeedsFlush(BufferChunk(toolCallBuffer, c), c) THEN "write_flush"
             ELSE NextLine(rest)

\* gemini/sse.ts 31-39: one line of the for loop, up to the first write.
GeminiLine ==
    /\ mode = "gemini"
    /\ pc = "line"
    /\ \E line \in Lines :
        /\ lines' = lines - 1
        /\ chunk' = line
        /\ IF Skipped(line) \/ GeminiMapThrows(line)
           THEN pc' = NextLine(lines - 1) /\ UNCHANGED <<toolCallBuffer, received>>
           ELSE IF HasTextFrame(line)
           THEN pc' = "write_text" /\ UNCHANGED <<toolCallBuffer, received>>
           ELSE GeminiBufferAndFlush(line, lines - 1)
    /\ afterFail' = Count("lines")
    /\ UNCHANGED <<apart, upstream, mode, clientOpen, delivered, events, written, failed, closed, uncaught>>

\* gemini/sse.ts 40-46, then 48-81: a rejected write returns.
GeminiWriteText ==
    /\ mode = "gemini"
    /\ pc = "write_text"
    /\ WriteTo(mapOpenAIStreamChunkToGemini(chunk)[1])
    /\ IF clientOpen
       THEN GeminiBufferAndFlush(chunk, lines)
       ELSE pc' = "finally" /\ UNCHANGED <<toolCallBuffer, received>>
    /\ chunk' = IF clientOpen THEN chunk ELSE NoChunk
    /\ afterFail' = Count("writes")
    /\ UNCHANGED <<apart, upstream, mode, clientOpen, lines, delivered, events, closed, uncaught>>

\* gemini/sse.ts 75-86: the flush write; a rejection is caught by the catch
\* of the line (83) and the for loop goes on.
GeminiWriteFlush ==
    /\ mode = "gemini"
    /\ pc = "write_flush"
    /\ WriteTo(FlushFrame(toolCallBuffer))
    /\ pc' = NextLine(lines)
    /\ afterFail' = Count("writes")
    /\ UNCHANGED <<apart, upstream, mode, clientOpen, lines, delivered, chunk, events, toolCallBuffer, closed, uncaught, received>>

\* gemini/handler.ts 136-149: one line of the for loop, up to the first write.
HandlerBufferAndFlush(c, rest) ==
    IF HandlerBufferThrows(c)
    THEN pc' = NextLine(rest) /\ UNCHANGED <<toolCallBuffer, received>>
    ELSE /\ toolCallBuffer' = BufferChunk(toolCallBuffer, c)
         /\ received' = received \o c.tool_calls
         /\ pc' = IF /\ NeedsFlush(BufferChunk(toolCallBuffer, c), c)
                     /\ ~HandlerFlushThrows(BufferChunk(toolCallBuffer, c))
                  THEN "write_flush" ELSE NextLine(rest)

HandlerLine ==
    /\ mode = "handler"
    /\ pc = "line"
    /\ \E line \in Lines :
        /\ lines' = lines - 1
        /\ chunk' = line
        /\ IF Skipped(line) \/ GeminiMapThrows(line)
           THEN pc' = NextLine(lines - 1) /\ UNCHANGED <<toolCallBuffer, received>>
           ELSE IF HasTextFrame(line)
           THEN pc' = "write_text" /\ UNCHANGED <<toolCallBuffer, received>>
           ELSE HandlerBufferAndFlush(line, lines - 1)
    /\ afterFail' = Count("lines")
    /\ UNCHANGED <<apart, upstream, mode, clientOpen, delivered, events, written, failed, closed, uncaught>>

\* gemini/handler.ts 150-151, then 154-212: a rejected write is caught by
\* the catch of the line (214) and the for loop goes on.
HandlerWriteText ==
    /\ mode = "handler"
    /\ pc = "write_text"
    /\ WriteTo(mapOpenAIStreamChunkToGemini(chunk)[1])
    /\ IF clientOpen
       THEN HandlerBufferAndFlush(chunk, lines)
       ELSE pc' = NextLine(lines) /\ UNCHANGED <<toolCallBuffer, received>>
    /\ afterFail' = Count("writes")
    /\ UNCHANGED <<apart, upstream, mode, clientOpen, lines, delivered, chunk, events, closed, uncaught>>

\* gemini/handler.ts 198-216: the flush write, caught the same way.
HandlerWriteFlush ==
    /\ mode = "handler"
    /\ pc = "write_flush"
    /\ WriteTo(HandlerFlushFrame(toolCallBuffer))
    /\ pc' = NextLine(lines)
    /\ afterFail' = Count("writes")
    /\ UNCHANGED <<apart, upstream, mode, clientOpen, lines, delivered, chunk, events, toolCallBuffer,
                   closed, uncaught, received>>

\* finally: `await writer.close()`, which rejects once the client has gone.
\* anthropic/sse.ts 86-90 and gemini/sse.ts 92-94 swallow the rejection;
\* gemini/handler.ts 222-224 does not.
Close ==
    /\ pc = "finally"
    /\ closed' = TRUE
    /\ uncaught' = (mode = "handler" /\ ~clientOpen)
    /\ pc' = "done"
    /\ UNCHANGED <<apart, upstream, mode, clientOpen, lines, delivered, chunk, events, toolCallBuffer,
                   written, failed, afterFail, received>>

Next ==
    \/ Disconnect
    \/ WriteMessageStart
    \/ WriteBlockStart
    \/ ReadValue
    \/ ReadDone
    \/ ReadFault
    \/ AnthropicLine
    \/ AnthropicWriteEvent
    \/ AnthropicCatch
    \/ GeminiLine
    \/ GeminiWriteText
    \/ GeminiWriteFlush
    \/ HandlerLine
    \/ HandlerWriteText
    \/ HandlerWriteFlush
    \/ Close

Spec == Init /\ [][Next]_vars

\* The Anthropic pump alone.
InitAnthropic == Init /\ mode = "anthropic"
NextAnthropic ==
    \/ Disconnect
    \/ WriteMessageStart
    \/ WriteBlockStart
    \/ ReadValue
    \/ ReadDone
    \/ ReadFault
    \/ AnthropicLine
    \/ AnthropicWriteEvent
    \/ AnthropicCatch
    \/ Close
SpecAnthropic == InitAnthropic /\ [][NextAnthropic]_vars

\* The two Gemini pumps alone.
GeminiModes == {"gemini", "handler"}
InitGemini == Init /\ mode \in GeminiModes
NextGemini ==
    \/ Disconnect
    \/ ReadValue
    \/ ReadDone
    \/ ReadFault
    \/ GeminiLine
    \/ GeminiWriteText
    \/ GeminiWriteFlush
    \/ HandlerLine
    \/ HandlerWriteText
    \/ HandlerWriteFlush
    \/ Close
SpecGemini == InitGemini /\ [][NextGemini]_vars

\* ------------------------------------------------- concurrent streams
\* Two requests in flight: each call of convertOpenAIStreamToAnthropicSSE or
\* convertOpenAIStreamToGeminiSSE has its own reader, writer, `buffer` and
\* toolCallBuffer, and its async function runs interleaved with the other's
\* at its awaits (reader.read, writer.write).
StreamIds == {"s1", "s2"}
StreamKinds == {"anthropic", "gemini"}
\* what the upstream of a stream sends, line by line
Scripts ==
    {<<Chunk("one", TRUE, "string", "Hi", << >>, JSNull),
       Chunk("one", TRUE, Undefined, "", << >>, "stop")>>,
     <<Chunk("one", TRUE, Undefined, "", <<ToolStart(MaxIndex)>>, JSNull),
       BadJSON,
       Chunk("one", TRUE, Undefined, "", <<ToolFrag(MaxIndex, FragC)>>, "tool_calls")>>,
     <<Chunk("one", TRUE, "string", "Hi", <<ToolStart(0), ToolFrag(0, FragA)>>, "length")>>}

\* buffers at module level: one object for every stream
SharedBuffer(s) == "s1"

\* `let buffer = ''` and `const toolCallBuffer = {}` inside the async
\* function: the objects a stream allocates are its own.
OwnBuffer(s) == s

\* a stream before its first step
NewStream(kind, script) ==
    [kind |-> kind, script |-> script, taken |-> 0,
     pc |-> IF kind = "anthropic" THEN "message_start" ELSE "read",
     line |-> NoChunk, events |-> << >>, written |-> << >>, open |-> TRUE]
NewBuffers == [buffer |-> << >>, toolCallBuffer |-> EmptyBuffer]

InitStreams ==
    /\ PumpInit /\ mode = "anthropic"
    /\ call = NoCall
    /\ streams \in [StreamIds -> {NewStream(k, sc) : k \in StreamKinds, sc \in Scripts}]
    /\ buffers = [b \in StreamIds |-> NewBuffers]

\* gemini/sse.ts 48-81 for stream s with line l in hand; st and bufs are
\* the stream and the buffers as the step has left them so far
StreamBufferAndFlush(s, l, st, bufs) ==
    LET b == OwnBuffer(s)
        buf == BufferChunk(bufs[b].toolCallBuffer, l)
    IN  /\ buffers' = [bufs EXCEPT ![b].toolCallBuffer = buf]
        /\ streams' = [streams EXCEPT
               ![s] = [st EXCEPT !.pc = IF NeedsFlush(buf, l) THEN "write_flush" ELSE "read"]]

\* sse.ts 57-64 (anthropic), 31-39 (gemini): a complete line, up to the next
\* await
StreamTake(s, l, st, bufs) ==
    IF st.kind = "anthropic"
    THEN LET out == IF Skipped(l) THEN << >> ELSE mapOpenAIStreamChunkToAnthropic(l)
         IN  /\ streams' = [streams EXCEPT
                    ![s] = [st EXCEPT !.events = out,
                                      !.pc = IF out = << >> THEN "read" ELSE "write_event"]]
             /\ buffers' = bufs
    ELSE IF Skipped(l) \/ GeminiMapThrows(l)
    THEN streams' = [streams EXCEPT ![s] = st] /\ buffers' = bufs
    ELSE IF HasTextFrame(l)
    THEN streams' = [streams EXCEPT ![s] = [st EXCEPT !.pc = "write_text"]] /\ buffers' = bufs
    ELSE StreamBufferAndFlush(s, l, st, bufs)

\* sse.ts 50-56 of both pumps: reader.read() of stream s resolves.  With
\* done the pump leaves the loop and closes its writer; otherwise the bytes
\* complete the next line, or are only its first part, which stays in
\* `buffer` until the next read.
StreamRead(s) ==
    LET st == streams[s]
        b == OwnBuffer(s)
        held == buffers[b].buffer
    IN  /\ st.pc = "read"
        /\ IF held = << >> /\ st.taken = Len(st.script)
           THEN /\ streams' = [streams EXCEPT ![s].pc = "done"]
                /\ buffers' = buffers
           ELSE IF held # << >>
           THEN StreamTake(s, Head(held), [st EXCEPT !.line = Head(held)],
                           [buffers EXCEPT ![b].buffer = << >>])
           ELSE LET l == st.script[st.taken + 1]
                    next == [st EXCEPT !.taken = @ + 1]
                IN  \/ StreamTake(s, l, [next EXCEPT !.line = l], buffers)
                    \/ /\ streams' = [streams EXCEPT ![s] = next]
                       /\ buffers' = [buffers EXCEPT ![b].buffer = <<l>>]
        /\ UNCHANGED <<pumpVars, call>>

\* the frame or event stream s is about to write
StreamOutput(s) ==
    LET st == streams[s]
    IN  CASE st.pc = "message_start" -> MessageStart
          [] st.pc = "content_block_start" -> TextBlockStart
          [] st.pc = "write_event" -> Head(st.events)
          [] st.pc = "write_text" -> mapOpenAIStreamChunkToGemini(st.line)[1]
          [] st.pc = "write_flush" -> FlushFrame(buffers[OwnBuffer(s)].toolCallBuffer)

\* `await writer.write(...)` of stream s resolves, and the pump runs on to
\* its next await.
StreamWrite(s) ==
    LET st == streams[s]
        sent == [st EXCEPT !.written = Append(@, StreamOutput(s))]
    IN  /\ st.pc \in {"message_start", "content_block_start", "write_event",
                      "write_text", "write_flush"}
        /\ st.open
        /\ CASE st.pc = "message_start" ->
                  /\ streams' = [streams EXCEPT ![s] = [sent EXCEPT !.pc = "content_block_start"]]
                  /\ buffers' = buffers
             [] st.pc = "content_block_start" ->
                  /\ streams' = [streams EXCEPT ![s] = [sent EXCEPT !.pc = "read"]]
                  /\ buffers' = buffers
             [] st.pc = "write_event" ->
                  /\ streams' = [streams EXCEPT
                         ![s] = [sent EXCEPT !.events = Tail(@),
                                             !.pc = IF Tail(st.events) = << >>
                                                    THEN "read" ELSE "write_event"]]
                  /\ buffers' = buffers
             [] st.pc = "write_text" -> StreamBufferAndFlush(s, st.line, sent, buffers)
             [] st.pc = "write_flush" ->
                  /\ streams' = [streams EXCEPT ![s] = [sent EXCEPT !.pc = "read"]]
                  /\ buffers' = buffers
        /\ UNCHANGED <<pumpVars, call>>

\* `await writer.write(...)` of stream s rejects, the client having gone:
\* the Gemini flush write is caught by the catch of the line and the loop
\* goes on (gemini/sse.ts 79-86); every other write ends the pump, the
\* Anthropic start writes after the outer catch has tried the error event
\* (anthropic/sse.ts 78-85).
StreamWriteFails(s) ==
    LET st == streams[s]
    IN  /\ st.pc \in {"message_start", "content_block_start", "write_event",
                      "write_text", "write_flush"}
        /\ ~st.open
        /\ streams' = [streams EXCEPT
               ![s].pc = IF st.pc = "write_flush" THEN "read" ELSE "done",
               ![s].events = << >>]
        /\ UNCHANGED <<pumpVars, call, buffers>>

\* the client of stream s closes its connection
StreamDisconnect(s) ==
    /\ streams[s].open
    /\ streams[s].pc # "done"
    /\ streams' = [streams EXCEPT ![s].open = FALSE]
    /\ UNCHANGED <<pumpVars, call, buffers>>

NextStreams ==
    \/ \E s \in StreamIds : StreamRead(s)
    \/ \E s \in StreamIds : StreamWrite(s)
    \/ \E s \in StreamIds : StreamWriteFails(s)
    \/ \E s \in StreamIds : StreamDisconnect(s)
SpecStreams == InitStreams /\ [][NextStreams]_vars

\* --------------------------------------- mapAnthropicRequestToOpenAI
\* The blocks of a block-list message.  A string that JSON.stringify made
\* is [json |-> value], a string taken as it is [text |-> string].
MaxBlocks == 3
Roles == {"user", "assistant"}
TextBlock(text) == [type |-> "text", text |-> text]
ImageBlock(source) == [type |-> "image", source |-> source]
ToolUseBlock(id, name, input) == [type |-> "tool_use", id |-> id, name |-> name, input |-> input]
ToolResultBlock(id, content) == [type |-> "tool_result", tool_use_id |-> id, content |-> content]
ThinkingBlock == [type |-> "thinking", thinking |-> "Hmm"]
UnsupportedBlock == [type |-> "document"]
NullBlock == [type |-> JSNull]
Blocks ==
    {TextBlock("Hello"), TextBlock("World"),
     ImageBlock("base64"), ImageBlock("url"), ImageBlock("file"),
     ToolUseBlock("toolu_1", "f", EmptyObject), ToolUseBlock("toolu_2", "g", EmptyObject),
     ToolResultBlock("toolu_1", [t |-> "string", text |-> "42"]),
     ToolResultBlock("toolu_2", [t |-> "string", text |-> "43"]),
     ThinkingBlock, UnsupportedBlock, NullBlock}
BlockLists == UNION {[1..n -> Blocks] : n \in 0..MaxBlocks}
AnthropicMessages ==
    {[role |-> r, content |-> [t |-> "blocks", blocks |-> bl]] : r \in Roles, bl \in BlockLists}
    \cup {[role |-> r, content |-> [t |-> "string", text |-> "Hi"]] : r \in Roles}
\* the generation parameters of a request and the OpenAI field of each
AnthropicKeys == {"max_tokens", "temperature", "top_p", "stop_sequences"}
\* a mapper that passes max_tokens on under its own name
AnthropicFieldSameName(key) ==
    CASE key = "max_tokens" -> "max_tokens"
      [] key = "temperature" -> "temperature"
      [] key = "top_p" -> "top_p"
      [] key = "stop_sequences" -> "stop"
\* request.ts 130-141
AnthropicField(key) ==
    CASE key = "max_tokens" -> "max_completion_tokens"
      [] key = "temperature" -> "temperature"
      [] key = "top_p" -> "top_p"
      [] key = "stop_sequences" -> "stop"
\* a value of the parameter; v tells two requests apart
AnthropicValue(key, v) ==
    CASE key = "stop_sequences" -> IF v = 0 THEN << >> ELSE <<"END">>
      [] key = "max_tokens" -> 1024 + v
      [] OTHER -> v
AnthropicParameters ==
    {[k \in S |-> AnthropicValue(k, v)] : S \in SUBSET AnthropicKeys, v \in {0, 1}}
AnthropicRequest(system, messages, set, stream) ==
    [model |-> "claude", system |-> system, messages |-> messages, set |-> set, stream |-> stream]
\* the requests that differ by their parameters only
AnthropicParameterRequests ==
    {AnthropicRequest(Undefined, <<[role |-> "user", content |-> [t |-> "string", text |-> "Hi"]]>>,
                      set, stream) :
        set \in AnthropicParameters,
        stream \in {[given |-> FALSE], [given |-> TRUE, value |-> TRUE], [given |-> TRUE, value |-> FALSE]}}
AnthropicRequests ==
    {AnthropicRequest(sy, <<m>>, [k \in {"max_tokens"} |-> 1024], [given |-> FALSE]) :
        sy \in {Undefined, "Be brief"}, m \in AnthropicMessages}
    \cup AnthropicParameterRequests

\* request.ts 76, 80-90: the content parts of OpenAI
ContentText(text) == [type |-> "text", text |-> text]
ContentImage(url) == [type |-> "image_url", url |-> url]
\* a flush that joins the texts of its parts with newlines
RECURSIVE JoinTexts(_)
JoinTexts(parts) ==
    IF Len(parts) = 1 THEN parts[1].text
    ELSE parts[1].text \o "\n" \o JoinTexts(Tail(parts))
FlushedContentJoined(currentContent) ==
    IF currentContent = << >> THEN [t |-> JSNull]
    ELSE IF \A n \in 1..Len(currentContent) : currentContent[n].type = "text"
    THEN [t |-> "string", text |-> JoinTexts(currentContent)]
    ELSE [t |-> "parts", parts |-> currentContent]

\* request.ts 38-45: content of the message to flush
FlushedContent(currentContent) ==
    IF currentContent = << >> THEN [t |-> JSNull]
    ELSE IF Len(currentContent) = 1 /\ currentContent[1].type = "text"
    THEN [t |-> "string", text |-> currentContent[1].text]
    ELSE [t |-> "parts", parts |-> currentContent]
\* request.ts 5-9, 48-50, 60-62: content.filter(isAssistantContentPart)
AssistantContent(content) ==
    IF content.t = "parts"
    THEN [t |-> "parts", parts |-> SelectSeq(content.parts, LAMBDA part : part.type = "text")]
    ELSE content

\* a flush whose assistant message with tool calls has no content
flushWithoutText(st, role) ==
    IF st.currentContent = << >> /\ st.currentToolCalls = << >> THEN st
    ELSE LET content == FlushedContent(st.currentContent)
             pushed ==
                 IF st.currentToolCalls # << >>
                 THEN <<[role |-> "assistant", content |-> [t |-> JSNull],
                         tool_calls |-> st.currentToolCalls]>>
                 ELSE IF content.t # JSNull
                 THEN <<[role |-> role, content |-> content]>>
                 ELSE << >>
         IN  [messages |-> st.messages \o pushed,
              currentContent |-> << >>, currentToolCalls |-> << >>]

\* request.ts 36-70 flushCurrentMessage; st is messages, currentContent and
\* currentToolCalls
flushCurrentMessage(st, role) ==
    IF st.currentContent = << >> /\ st.currentToolCalls = << >> THEN st
    ELSE LET content == FlushedContent(st.currentContent)
             pushed ==
                 IF st.currentToolCalls # << >>
                 THEN <<[role |-> "assistant", content |-> AssistantContent(content),
                         tool_calls |-> st.currentToolCalls]>>
                 ELSE IF role = "user" /\ content.t # JSNull
                 THEN <<[role |-> "user", content |-> content]>>
                 ELSE IF role = "assistant" /\ content.t # JSNull
                 THEN <<[role |-> "assistant", content |-> AssistantContent(content)]>>
                 ELSE << >>
         IN  [messages |-> st.messages \o pushed,
              currentContent |-> << >>, currentToolCalls |-> << >>]

\* a loop that takes the text of a thinking block for text
MapBlockThinkingAsText(st, role, block) ==
    IF block.type = "thinking"
    THEN [st EXCEPT !.currentContent = Append(@, ContentText(block.thinking))]
    ELSE IF block.type = "text"
    THEN [st EXCEPT !.currentContent = Append(@, ContentText(block.text))]
    ELSE st

\* request.ts 73-119: one block of the for loop
MapBlock(st, role, block) ==
    CASE block.type = "text" ->
            [st EXCEPT !.currentContent = Append(@, ContentText(block.text))]
      [] block.type = "image" ->
            IF block.source = "base64"
            THEN [st EXCEPT !.currentContent = Append(@, ContentImage("data:base64"))]
            ELSE IF block.source = "url"
            THEN [st EXCEPT !.currentContent = Append(@, ContentImage("url"))]
            ELSE st
      [] block.type = "tool_use" ->
            [st EXCEPT !.currentToolCalls =
                Append(@, [id |-> block.id, type |-> "function", name |-> block.name,
                           arguments |-> [json |-> block.input]])]
      [] block.type = "tool_result" ->
            LET flushed == flushCurrentMessage(st, role)
            IN  [flushed EXCEPT !.messages =
                    Append(@, [role |-> "tool",
                               content |-> IF block.content.t = "string" THEN block.content
                                           ELSE [t |-> "string", json |-> block.content],
                               tool_call_id |-> block.tool_use_id])]
      [] OTHER -> st

\* a loop that never flushes between blocks: a tool_result goes out before
\* what was accumulated
RECURSIVE MapBlocksUnflushed(_, _, _)
MapBlocksUnflushed(st, role, blocks) ==
    IF blocks = << >> THEN st
    ELSE LET block == Head(blocks)
             next == IF block.type = "tool_result"
                     THEN [st EXCEPT !.messages =
                              Append(@, [role |-> "tool", content |-> block.content,
                                         tool_call_id |-> block.tool_use_id])]
                     ELSE MapBlock(st, role, block)
         IN  MapBlocksUnflushed(next, role, Tail(blocks))

RECURSIVE MapBlocks(_, _, _)
MapBlocks(st, role, blocks) ==
    IF blocks = << >> THEN st
    ELSE MapBlocks(MapBlock(st, role, Head(blocks)), role, Tail(blocks))

\* a message of string content pushed as a list of one text part
MapMessageStringAsPart(message) ==
    IF message.content.t = "string"
    THEN <<[role |-> message.role,
            content |-> [t |-> "parts", parts |-> <<[type |-> "text", text |-> message.content.text]>>]]>>
    ELSE flushCurrentMessage(
             MapBlocks([messages |-> << >>, currentContent |-> << >>, currentToolCalls |-> << >>],
                       message.role, message.content.blocks),
             message.role).messages

\* request.ts 27-122: the messages one message of the request adds
MapMessage(message) ==
    IF message.content.t = "string"
    THEN <<[role |-> message.role, content |-> message.content]>>
    ELSE flushCurrentMessage(
             MapBlocks([messages |-> << >>, currentContent |-> << >>, currentToolCalls |-> << >>],
                       message.role, message.content.blocks),
             message.role).messages

RECURSIVE MapMessages(_)
MapMessages(msgs) ==
    IF msgs = << >> THEN << >> ELSE MapMessage(Head(msgs)) \o MapMessages(Tail(msgs))

\* request.ts 14-122: the messages of the OpenAI request
RequestMessages(anthropicReq) ==
    (IF Truthy(anthropicReq.system)
     THEN <<[role |-> "system", content |-> [t |-> "string", text |-> anthropicReq.system]]>>
     ELSE << >>)
    \o MapMessages(anthropicReq.messages)

\* request.ts 130-141: the fields the parameters of the request set
RequestFields(set) ==
    [f \in {AnthropicField(key) : key \in DOMAIN set} |->
        set[CHOOSE key \in DOMAIN set : AnthropicField(key) = f]]

\* request.ts 11-176; `fields` are the properties of openAIReq set from the
\* generation parameters
mapAnthropicRequestToOpenAI(anthropicReq) ==
    [model |-> anthropicReq.model,
     messages |-> RequestMessages(anthropicReq),
     stream |-> anthropicReq.stream,
     fields |-> RequestFields(anthropicReq.set)]

\* A request arrives and the handler maps it.
InitRequest ==
    /\ PumpInit /\ mode = "anthropic"
    /\ streams = NoStreams /\ buffers = NoStreams
    /\ \E req \in AnthropicRequests :
          call = [fn |-> "mapAnthropicRequestToOpenAI", arg |-> req, state |-> "called"]
CallRequestMapper ==
    /\ call.fn = "mapAnthropicRequestToOpenAI"
    /\ call.state = "called"
    /\ call' = [fn |-> call.fn, arg |-> call.arg, state |-> "returned",
                value |-> mapAnthropicRequestToOpenAI(call.arg)]
    /\ UNCHANGED <<pumpVars, streams, buffers>>
NextRequest == CallRequestMapper
SpecRequest == InitRequest /\ [][NextRequest]_vars

\* ----------------------------------------- mapOpenAIResponseToAnthropic
\* most tool calls of a response
MaxToolCalls == 2

\* the arguments strings of a tool call, as JSON tokens: empty, {}, a full
\* object, a number, and two texts that are not JSON
ArgumentTexts ==
    {<< >>, <<"{", "}">>, FragA \o FragB \o FragC, <<"1">>, FragA, FragA \o FragB}
ResponseToolCall(id, type, name, arguments) ==
    [id |-> id, type |-> type, name |-> name, arguments |-> arguments]
ResponseToolCalls ==
    {ResponseToolCall("call_1", "function", "f", a) : a \in ArgumentTexts}
    \cup {ResponseToolCall("call_2", "function", "g", <<"{", "}">>),
          ResponseToolCall("call_3", "custom", "h", << >>),
          ResponseToolCall("", "function", "k", <<"{", "}">>)}
ToolCallLists == UNION {[1..n -> ResponseToolCalls] : n \in 0..MaxToolCalls}
\* choice.finish_reason: the reasons of the API, a string that is none of
\* them, null, and a choice without the property
FinishReasonInputs ==
    {"stop", "length", "tool_calls", "function_call", "content_filter", "eos",
     JSNull, Undefined}
NoUsage == [given |-> FALSE]
Usage(prompt, completion) ==
    [given |-> TRUE, prompt_tokens |-> prompt, completion_tokens |-> completion]
OpenAIResponses ==
    {[id |-> "chatcmpl_1", model |-> "m", content |-> c, tool_calls |-> tcs,
      finish_reason |-> fr, usage |-> u] :
        c \in {Undefined, JSNull, "", "Hi"},
        tcs \in {[given |-> FALSE]} \cup {[given |-> TRUE, list |-> l] : l \in ToolCallLists},
        fr \in FinishReasonInputs,
        u \in {NoUsage, Usage(3, 5), Usage(0, 0)}}

\* response.ts 11-18: the text block of choice.message.content
ResponseTextBlocks(content) ==
    IF content # Undefined
    THEN <<[type |-> "text", text |-> IF Truthy(content) THEN content ELSE ""]>>
    ELSE << >>

\* response.ts 27: JSON.parse(toolCall.function.arguments || '{}')
ParseArguments(arguments) ==
    ParseJSON(IF arguments = << >> THEN <<"{", "}">> ELSE arguments)

\* response.ts 20-32: the tool_use blocks of the tool calls; ok = FALSE when
\* JSON.parse threw
RECURSIVE ResponseToolUseBlocks(_)
ResponseToolUseBlocks(toolCalls) ==
    IF toolCalls = << >> THEN [ok |-> TRUE, blocks |-> << >>]
    ELSE LET toolCall == Head(toolCalls)
             rest == ResponseToolUseBlocks(Tail(toolCalls))
         IN  IF toolCall.type = "function"
             THEN LET input == ParseArguments(toolCall.arguments)
                  IN  IF ~input.ok THEN [ok |-> FALSE, blocks |-> << >>]
                      ELSE IF ~rest.ok THEN rest
                      ELSE [ok |-> TRUE,
                            blocks |-> <<[type |-> "tool_use", id |-> toolCall.id,
                                          name |-> toolCall.name, input |-> input.value]>>
                                       \o rest.blocks]
             ELSE rest

\* response.ts 5-61; threw = TRUE when the call ends by an exception
mapOpenAIResponseToAnthropic(openAIResp) ==
    LET text == ResponseTextBlocks(openAIResp.content)
        tools == IF openAIResp.tool_calls.given
                 THEN ResponseToolUseBlocks(openAIResp.tool_calls.list)
                 ELSE [ok |-> TRUE, blocks |-> << >>]
        content == text \o tools.blocks
    IN  IF ~tools.ok THEN [threw |-> TRUE]
        ELSE [threw |-> FALSE,
              value |-> [id |-> openAIResp.id, type |-> "message", role |-> "assistant",
                         content |-> IF content = << >>
                                     THEN <<[type |-> "text", text |-> ""]>>
                                     ELSE content,
                         model |-> openAIResp.model,
                         stop_reason |-> mapFinishReason(openAIResp.finish_reason),
                         usage |-> [input_tokens |->
                                        IF openAIResp.usage.given
                                        THEN openAIResp.usage.prompt_tokens ELSE 0,
                                    output_tokens |->
                                        IF openAIResp.usage.given
                                        THEN openAIResp.usage.completion_tokens ELSE 0]]]

\* A response of the upstream arrives and the handler maps it.
InitResponse ==
    /\ PumpInit /\ mode = "anthropic"
    /\ streams = NoStreams /\ buffers = NoStreams
    /\ \E resp \in OpenAIResponses :
          call = [fn |-> "mapOpenAIResponseToAnthropic", arg |-> resp, state |-> "called"]
CallResponseMapper ==
    /\ call.fn = "mapOpenAIResponseToAnthropic"
    /\ call.state = "called"
    /\ LET result == mapOpenAIResponseToAnthropic(call.arg)
       IN  call' = IF result.threw
                   THEN [fn |-> call.fn, arg |-> call.arg, state |-> "threw"]
                   ELSE [fn |-> call.fn, arg |-> call.arg, state |-> "returned",
                         value |-> result.value]
    /\ UNCHANGED <<pumpVars, streams, buffers>>
NextResponse == CallResponseMapper
SpecResponse == InitResponse /\ [][NextResponse]_vars

\* -------------------------------------------- mapOpenAIResponseToGemini
\* One choice of a completion.
Choice(index, content, toolCalls, finishReason) ==
    [index |-> index, content |-> content, tool_calls |-> toolCalls,
     finish_reason |-> finishReason]
FirstChoices ==
    {Choice(0, c, tcs, fr) :
        c \in {Undefined, JSNull, "", "Hi"},
        tcs \in {[given |-> FALSE]} \cup {[given |-> TRUE, list |-> l] : l \in ToolCallLists},
        fr \in FinishReasonInputs}
\* the choices a completion with `n: 2` adds
SecondChoices ==
    {Choice(1, JSNull, [given |-> FALSE], "stop"),
     Choice(1, "Hi", [given |-> FALSE], "length"),
     Choice(1, JSNull,
            [given |-> TRUE, list |-> <<ResponseToolCall("call_2", "function", "g", <<"{", "}">>)>>],
            "tool_calls")}
Completions ==
    {[choices |-> << >>]}
    \cup {[choices |-> <<c>>] : c \in FirstChoices}
    \cup {[choices |-> <<c, d>>] : c \in FirstChoices, d \in SecondChoices}

\* a functionCall part as the Gemini API defines it, without an id
FunctionCallPartWithoutId(id, name, args) ==
    [functionCall |-> [id |-> Undefined, name |-> name, args |-> args]]

\* response.ts (Gemini) 705: a functionCall part with the id of the call
ResponseFunctionCallPart(id, name, args) ==
    [functionCall |-> [id |-> id, name |-> name, args |-> args]]

\* response.ts (Gemini) 695-708: the functionCall parts of the tool calls; a
\* SyntaxError of JSON.parse is caught and leaves args = {}
RECURSIVE ResponseFunctionCallParts(_)
ResponseFunctionCallParts(toolCalls) ==
    IF toolCalls = << >> THEN << >>
    ELSE LET toolCall == Head(toolCalls)
             parsed == ParseJSON(toolCall.arguments)
         IN  (IF toolCall.type = "function"
              THEN <<ResponseFunctionCallPart(toolCall.id, toolCall.name,
                         IF parsed.ok THEN parsed.value ELSE EmptyObject)>>
              ELSE << >>)
             \o ResponseFunctionCallParts(Tail(toolCalls))

\* a candidate without the fallback part
CandidateWithoutFallback(choice) ==
    [content |-> [role |-> "model",
                  parts |-> (IF choice.content # JSNull /\ choice.content # Undefined
                             THEN <<TextPart(choice.content)>> ELSE << >>)
                            \o (IF choice.tool_calls.given
                                THEN ResponseFunctionCallParts(choice.tool_calls.list)
                                ELSE << >>)],
     finishReason |-> GeminiFinishReason(choice.finish_reason),
     index |-> choice.index]

\* response.ts (Gemini) 688-719: the candidate of one choice
Candidate(choice) ==
    LET text == IF choice.content # JSNull /\ choice.content # Undefined
                THEN <<TextPart(choice.content)>> ELSE << >>
        calls == IF choice.tool_calls.given
                 THEN ResponseFunctionCallParts(choice.tool_calls.list) ELSE << >>
        parts == text \o calls
    IN  [content |-> [role |-> "model",
                      parts |-> IF parts = << >> THEN <<TextPart("")>> ELSE parts],
         finishReason |-> GeminiFinishReason(choice.finish_reason),
         index |-> choice.index]

\* response.ts (Gemini) 687-722
mapOpenAIResponseToGemini(openAIResp) ==
    [candidates |-> [n \in 1..Len(openAIResp.choices) |-> Candidate(openAIResp.choices[n])]]

\* A completion of the upstream arrives and the Gemini handler maps it.
InitGeminiResponse ==
    /\ PumpInit /\ mode = "gemini"
    /\ streams = NoStreams /\ buffers = NoStreams
    /\ \E resp \in Completions :
          call = [fn |-> "mapOpenAIResponseToGemini", arg |-> resp, state |-> "called"]
CallGeminiResponseMapper ==
    /\ call.fn = "mapOpenAIResponseToGemini"
    /\ call.state = "called"
    /\ call' = [fn |-> call.fn, arg |-> call.arg, state |-> "returned",
                value |-> mapOpenAIResponseToGemini(call.arg)]
    /\ UNCHANGED <<pumpVars, streams, buffers>>

\* a completion mapped for an Anthropic client or for a Gemini client
InitResponses == InitResponse \/ InitGeminiResponse
NextResponses == CallResponseMapper \/ CallGeminiResponseMapper
SpecResponses == InitResponses /\ [][NextResponses]_vars

\* ------------------------------------------- the finish reason, Anthropic
\* the chunks the stream mapper is called on: those of the pumps, and one
\* per finish reason
StreamChunkInputs ==
    Chunks \cup {Chunk("one", TRUE, ck, "Hi", << >>, fr) :
                    ck \in {"string", Undefined}, fr \in FinishReasonInputs}

\* utils.ts mapFinishReason, response.ts 49 and sse.ts 122-126 each called once
InitAnthropicFinish ==
    \/ InitResponse
    \/ /\ PumpInit /\ mode = "anthropic"
       /\ streams = NoStreams /\ buffers = NoStreams
       /\ \/ \E reason \in FinishReasonInputs :
                call = [fn |-> "mapFinishReason", arg |-> reason, state |-> "called"]
          \/ \E c \in StreamChunkInputs :
                call = [fn |-> "mapOpenAIStreamChunkToAnthropic", arg |-> c, state |-> "called"]
CallFinishReason ==
    /\ call.fn = "mapFinishReason"
    /\ call.state = "called"
    /\ call' = [fn |-> call.fn, arg |-> call.arg, state |-> "returned",
                value |-> mapFinishReason(call.arg)]
    /\ UNCHANGED <<pumpVars, streams, buffers>>
CallChunkMapper ==
    /\ call.fn = "mapOpenAIStreamChunkToAnthropic"
    /\ call.state = "called"
    /\ call' = [fn |-> call.fn, arg |-> call.arg, state |-> "returned",
                value |-> mapOpenAIStreamChunkToAnthropic(call.arg)]
    /\ UNCHANGED <<pumpVars, streams, buffers>>
NextAnthropicFinish == CallFinishReason \/ CallResponseMapper \/ CallChunkMapper
SpecAnthropicFinish == InitAnthropicFinish /\ [][NextAnthropicFinish]_vars

\* ---------------------------------------------- the finish reason, Gemini
\* gemini/utils.ts mapFinishReason, response.ts 716 and sse.ts 108 each
\* called once
InitGeminiFinish ==
    \/ InitGeminiResponse
    \/ /\ PumpInit /\ mode = "gemini"
       /\ streams = NoStreams /\ buffers = NoStreams
       /\ \/ \E reason \in FinishReasonInputs :
                call = [fn |-> "gemini/mapFinishReason", arg |-> reason, state |-> "called"]
          \/ \E c \in StreamChunkInputs :
                call = [fn |-> "mapOpenAIStreamChunkToGemini", arg |-> c, state |-> "called"]
CallGeminiFinishReason ==
    /\ call.fn = "gemini/mapFinishReason"
    /\ call.state = "called"
    /\ call' = [fn |-> call.fn, arg |-> call.arg, state |-> "returned",
                value |-> GeminiFinishReason(call.arg)]
    /\ UNCHANGED <<pumpVars, streams, buffers>>
CallGeminiChunkMapper ==
    /\ call.fn = "mapOpenAIStreamChunkToGemini"
    /\ call.state = "called"
    /\ call' = IF GeminiMapThrows(call.arg)
               THEN [fn |-> call.fn, arg |-> call.arg, state |-> "threw"]
               ELSE [fn |-> call.fn, arg |-> call.arg, state |-> "returned",
                     value |-> mapOpenAIStreamChunkToGemini(call.arg)]
    /\ UNCHANGED <<pumpVars, streams, buffers>>
NextGeminiFinish ==
    CallGeminiFinishReason \/ CallGeminiResponseMapper \/ CallGeminiChunkMapper
SpecGeminiFinish == InitGeminiFinish /\ [][NextGeminiFinish]_vars

\* ---------------------------------------------- mapGeminiRequestToOpenAI
\* most parts of one turn
MaxParts == 3
\* latest reading of the clock during one call, the call starting at 0
MaxTick == 1

\* the parts of a turn: text, inline data, file data, function calls with and
\* without an id of the caller, function responses with and without one
InlineDataPart == [inlineData |-> "image/png"]
FileDataPart == [fileData |-> "gs://file"]
FunctionResponsePart(id, name) ==
    [functionResponse |-> [id |-> id, name |-> name, response |-> EmptyObject]]
FunctionCallParts ==
    {ResponseFunctionCallPart("call_1", "f", EmptyObject),
     ResponseFunctionCallPart(Undefined, "f", EmptyObject),
     ResponseFunctionCallPart(Undefined, "g", EmptyObject),
     ResponseFunctionCallPart("", "f", EmptyObject)}
FunctionResponseParts ==
    {FunctionResponsePart("call_1", "f"), FunctionResponsePart(Undefined, "f")}
GeminiParts ==
    {TextPart("A"), TextPart("B"), InlineDataPart, FileDataPart}
    \cup FunctionCallParts \cup FunctionResponseParts
PartLists(S, max) == UNION {[1..n -> S] : n \in 0..max}
Turn(role, parts) == [role |-> role, parts |-> parts]

\* generationConfig: the parameters it may set, and the OpenAI field of each
GenerationKeys ==
    {"temperature", "topP", "maxOutputTokens", "stopSequences", "candidateCount",
     "presencePenalty", "frequencyPenalty", "responseLogprobs", "logprobs"}
OpenAIField(key) ==
    CASE key = "temperature" -> "temperature"
      [] key = "topP" -> "top_p"
      [] key = "maxOutputTokens" -> "max_completion_tokens"
      [] key = "stopSequences" -> "stop"
      [] key = "candidateCount" -> "n"
      [] key = "presencePenalty" -> "presence_penalty"
      [] key = "frequencyPenalty" -> "frequency_penalty"
      [] key = "responseLogprobs" -> "logprobs"
      [] key = "logprobs" -> "top_logprobs"
\* a value of the parameter; v tells two requests apart
GenerationValue(key, v) ==
    CASE key = "stopSequences" -> IF v = 0 THEN << >> ELSE <<"END">>
      [] key = "responseLogprobs" -> (v = 1)
      [] OTHER -> v
NoConfig == [given |-> FALSE]
GenerationConfigs ==
    {NoConfig}
    \cup {[given |-> TRUE, set |-> [k \in S |-> GenerationValue(k, v)], responseMimeType |-> mime] :
            S \in SUBSET GenerationKeys, v \in {0, 1},
            mime \in {Undefined, "application/json"}}

GeminiRequest(systemInstruction, contents, generationConfig) ==
    [systemInstruction |-> systemInstruction, contents |-> contents,
     generationConfig |-> generationConfig]
NoInstruction == [t |-> Undefined]
SystemInstructions ==
    {NoInstruction, [t |-> "string", text |-> "Be brief"],
     [t |-> "content", parts |-> <<TextPart("A"), InlineDataPart, TextPart("B")>>],
     [t |-> "content", parts |-> <<InlineDataPart>>],
     [t |-> "part", part |-> TextPart("A")],
     [t |-> "part", part |-> InlineDataPart]}
\* the requests that differ by system instruction and parameters only
GeminiParameterRequests ==
    {GeminiRequest(sy, <<Turn("user", <<TextPart("A")>>)>>, g) :
        sy \in SystemInstructions, g \in GenerationConfigs}
\* one turn of any parts; a model turn of function calls answered by a turn
\* of function responses; one plain turn with a system instruction and a
\* generationConfig
GeminiRequests ==
    {GeminiRequest(NoInstruction, <<Turn(r, ps)>>, NoConfig) :
        r \in {"user", "model"}, ps \in PartLists(GeminiParts, MaxParts)}
    \cup {GeminiRequest(NoInstruction, <<Turn("model", cs), Turn("function", rs)>>, NoConfig) :
            cs \in PartLists(FunctionCallParts, 2) \ {<< >>},
            rs \in PartLists(FunctionResponseParts, 2) \ {<< >>}}
    \cup GeminiParameterRequests

\* utils.ts 369-388: the type guards
isTextPart(part) == "text" \in DOMAIN part
isInlineDataPart(part) == "inlineData" \in DOMAIN part
isFunctionCallPart(part) == "functionCall" \in DOMAIN part
isFunctionResponsePart(part) == "functionResponse" \in DOMAIN part

\* utils.ts 396-398: `call_${functionName}_${Date.now()}`, now the reading
\* of the clock
generateToolCallId(functionName, now) == "call_" \o functionName \o "_" \o ToString(now)

\* the readings of the clock the n calls of Date.now() of one request may
\* get: none is earlier than the one before
Clocks(n) ==
    {clock \in [1..n -> 0..MaxTick] : \A i, j \in 1..n : i <= j => clock[i] <= clock[j]}
\* the parts of a request an id may be generated for: the function calls and
\* function responses without an id of their own
NeedsId(part) ==
    \/ isFunctionCallPart(part) /\ ~Truthy(part.functionCall.id)
    \/ isFunctionResponsePart(part) /\ ~Truthy(part.functionResponse.id)
RECURSIVE NumReadings(_)
NumReadings(contents) ==
    IF contents = << >> THEN 0
    ELSE Len(SelectSeq(Head(contents).parts, NeedsId)) + NumReadings(Tail(contents))

\* `.join('\n')`
RECURSIVE JoinLines(_)
JoinLines(texts) ==
    IF texts = << >> THEN ""
    ELSE IF Len(texts) = 1 THEN texts[1]
    ELSE texts[1] \o "\n" \o JoinLines(Tail(texts))
TextsOfParts(parts) ==
    LET textParts == SelectSeq(parts, isTextPart)
    IN  [n \in 1..Len(textParts) |-> textParts[n].text]

\* request.ts (Gemini) 486-500; [t |-> JSNull] is the null it returns
convertSystemInstructionToOpenAI(systemInstruction) ==
    CASE systemInstruction.t = "string" ->
            [t |-> "string", text |-> systemInstruction.text]
      [] systemInstruction.t = "content" ->
            LET systemContent == JoinLines(TextsOfParts(systemInstruction.parts))
            IN  IF systemContent # "" THEN [t |-> "string", text |-> systemContent]
                ELSE [t |-> JSNull]
      [] systemInstruction.t = "part" /\ isTextPart(systemInstruction.part) ->
            [t |-> "string", text |-> systemInstruction.part.text]
      [] OTHER -> [t |-> JSNull]

\* request.ts (Gemini) 615-634: the content part of a part, if it has one
convertPartToOpenAIContentPart(part) ==
    IF isTextPart(part) THEN <<ContentText(part.text)>>
    ELSE IF isInlineDataPart(part) THEN <<ContentImage("data:" \o part.inlineData)>>
    ELSE << >>
RECURSIVE ConvertedParts(_)
ConvertedParts(parts) ==
    IF parts = << >> THEN << >>
    ELSE convertPartToOpenAIContentPart(Head(parts)) \o ConvertedParts(Tail(parts))

\* request.ts (Gemini) 598-613
convertPartsToOpenAIContent(parts) ==
    IF parts = << >> THEN [t |-> "string", text |-> ""]
    ELSE IF \A n \in 1..Len(parts) : isTextPart(parts[n])
    THEN [t |-> "string", text |-> JoinLines(TextsOfParts(parts))]
    ELSE [t |-> "parts", parts |-> ConvertedParts(parts)]

\* request.ts (Gemini) 529-546: the tool calls of the function-call parts;
\* clock[k] is the next reading of the clock.  `arguments` is fc.args as it
\* came, an object.
RECURSIVE FunctionCallsToToolCalls(_, _, _)
FunctionCallsToToolCalls(functionCalls, clock, k) ==
    IF functionCalls = << >> THEN [toolCalls |-> << >>, k |-> k]
    ELSE LET fc == Head(functionCalls).functionCall
             own == Truthy(fc.id)
             id == IF own THEN fc.id ELSE generateToolCallId(fc.name, clock[k])
             rest == FunctionCallsToToolCalls(Tail(functionCalls), clock,
                                              IF own THEN k ELSE k + 1)
         IN  [toolCalls |-> <<[id |-> id, type |-> "function", name |-> fc.name,
                               arguments |-> fc.args]>> \o rest.toolCalls,
              k |-> rest.k]

\* request.ts (Gemini) 525-552
convertFunctionCallsToAssistantMessage(allParts, functionCalls, clock, k) ==
    LET made == FunctionCallsToToolCalls(functionCalls, clock, k)
        otherParts == SelectSeq(allParts, LAMBDA p : ~isFunctionCallPart(p))
        textContent == IF otherParts # << >> THEN convertPartsToOpenAIContent(otherParts)
                       ELSE [t |-> JSNull]
    IN  [messages |-> <<[role |-> "assistant",
                         content |-> IF textContent.t = "string" THEN textContent
                                     ELSE [t |-> JSNull],
                         tool_calls |-> made.toolCalls]>>,
         k |-> made.k]

\* request.ts (Gemini) 554-577
RECURSIVE convertFunctionResponsesToToolMessages(_, _, _)
convertFunctionResponsesToToolMessages(functionResponses, clock, k) ==
    IF functionResponses = << >> THEN [messages |-> << >>, k |-> k]
    ELSE LET fr == Head(functionResponses).functionResponse
             own == Truthy(fr.id)
             id == IF own THEN fr.id ELSE generateToolCallId(fr.name, clock[k])
             rest == convertFunctionResponsesToToolMessages(Tail(functionResponses), clock,
                                                            IF own THEN k ELSE k + 1)
         IN  [messages |-> <<[role |-> "tool", tool_call_id |-> id,
                              content |-> [json |-> fr.response]]>> \o rest.messages,
              k |-> rest.k]

\* request.ts (Gemini) 579-596
convertStandardContentToMessage(content, parts) ==
    LET contentParam == convertPartsToOpenAIContent(parts)
        textContent ==
            IF contentParam.t = "string" THEN contentParam.text
            ELSE JoinLines(LET texts == SelectSeq(contentParam.parts,
                                                  LAMBDA p : p.type = "text")
                           IN  [n \in 1..Len(texts) |-> texts[n].text])
    IN  IF \/ contentParam.t = "string" /\ contentParam.text = ""
           \/ contentParam.t = "parts" /\ contentParam.parts = << >>
        THEN << >>
        ELSE IF content.role = "model"
        THEN IF textContent = "" THEN << >>
             ELSE <<[role |-> "assistant", content |-> [t |-> "string", text |-> textContent]]>>
        ELSE <<[role |-> "user", content |-> contentParam]>>

\* request.ts (Gemini) 502-523
convertGeminiContentToOpenAI(content, clock, k) ==
    LET parts == content.parts
        functionCalls == SelectSeq(parts, isFunctionCallPart)
        functionResponses == SelectSeq(parts, isFunctionResponsePart)
    IN  IF functionCalls # << >>
        THEN convertFunctionCallsToAssistantMessage(parts, functionCalls, clock, k)
        ELSE IF functionResponses # << >>
        THEN convertFunctionResponsesToToolMessages(functionResponses, clock, k)
        ELSE [messages |-> convertStandardContentToMessage(content, parts), k |-> k]

\* request.ts (Gemini) 427-432
RECURSIVE ConvertContents(_, _, _)
ConvertContents(contents, clock, k) ==
    IF contents = << >> THEN << >>
    ELSE LET first == convertGeminiContentToOpenAI(Head(contents), clock, k)
         IN  first.messages \o ConvertContents(Tail(contents), clock, first.k)

\* a temperature of 1 for a request that sets none
GenerationFieldsWithDefault(g) ==
    LET set == IF g.given THEN g.set ELSE [k \in {} |-> 0]
        fields == {OpenAIField(key) : key \in DOMAIN set}
        KeyOf(f) == CHOOSE key \in DOMAIN set : OpenAIField(key) = f
        format == IF g.given /\ g.responseMimeType = "application/json"
                  THEN {"response_format"} ELSE {}
    IN  [f \in fields \cup format \cup {"temperature"} |->
            IF f = "response_format" THEN "json_object"
            ELSE IF f \in fields THEN set[KeyOf(f)] ELSE 1]

\* request.ts (Gemini) 460-474: the fields generationConfig sets
GenerationFields(g) ==
    IF ~g.given THEN [f \in {} |-> 0]
    ELSE LET fields == {OpenAIField(key) : key \in DOMAIN g.set}
             KeyOf(f) == CHOOSE key \in DOMAIN g.set : OpenAIField(key) = f
         IN  [f \in fields \cup (IF g.responseMimeType = "application/json"
                                 THEN {"response_format"} ELSE {}) |->
                 IF f = "response_format" THEN "json_object" ELSE g.set[KeyOf(f)]]

\* request.ts (Gemini) 416-484; `fields` are the properties of openAIReq
\* other than model and messages
mapGeminiRequestToOpenAI(geminiReq, model, clock) ==
    LET systemMessage == convertSystemInstructionToOpenAI(geminiReq.systemInstruction)
    IN  [model |-> model,
         messages |-> (IF systemMessage.t # JSNull
                       THEN <<[role |-> "system", content |-> systemMessage]>> ELSE << >>)
                      \o ConvertContents(geminiReq.contents, clock, 1),
         fields |-> GenerationFields(geminiReq.generationConfig)]

\* A request of a Gemini client arrives and the handler maps it; Date.now()
\* reads the clock the call finds.
InitGeminiRequest ==
    /\ PumpInit /\ mode = "gemini"
    /\ streams = NoStreams /\ buffers = NoStreams
    /\ \E req \in GeminiRequests :
          call = [fn |-> "mapGeminiRequestToOpenAI", arg |-> req, state |-> "called"]
CallGeminiRequestMapper ==
    /\ call.fn = "mapGeminiRequestToOpenAI"
    /\ call.state = "called"
    /\ \E clock \in Clocks(NumReadings(call.arg.contents)) :
          call' = [state |-> "returned", clock |-> clock,
                   value |-> mapGeminiRequestToOpenAI(call.arg, "gemini-pro", clock)] @@ call
    /\ UNCHANGED <<pumpVars, streams, buffers>>
NextGeminiRequest == CallGeminiRequestMapper
SpecGeminiRequest == InitGeminiRequest /\ [][NextGeminiRequest]_vars

\* ------------------------------------------- a function call, there and back
\* what a stream has buffered when its finish reason arrives: calls whose
\* first delta had an id, and one whose first delta had none (`id || ''`)
BufferedCalls ==
    {[id |-> "call_0", name |-> "f", arguments |-> <<"{", "}">>],
     [id |-> "call_n", name |-> "g", arguments |-> FragA \o FragB \o FragC],
     [id |-> "", name |-> "f", arguments |-> FragA]}
ToolCallBuffers ==
    {(0 :> a) : a \in BufferedCalls}
    \cup {(0 :> a) @@ (1 :> b) : a, b \in BufferedCalls}

\* the parts as a client holds them: the JSON of a part has the functionCall
\* only
PartsSent(parts) ==
    [n \in 1..Len(parts) |->
        IF isFunctionCallPart(parts[n]) THEN [functionCall |-> parts[n].functionCall]
        ELSE parts[n]]
FunctionToolCalls(toolCalls) ==
    IF ~toolCalls.given THEN << >>
    ELSE SelectSeq(toolCalls.list, LAMBDA tc : tc.type = "function")

InitRoundTrip ==
    \/ InitGeminiResponse
    \/ /\ PumpInit /\ mode = "gemini"
       /\ streams = NoStreams /\ buffers = NoStreams
       /\ \E buf \in ToolCallBuffers :
             call = [fn |-> "flush", arg |-> buf, state |-> "called"]
\* sse.ts 60-78: the frame of the buffered calls
FlushToolCalls ==
    /\ call.fn = "flush"
    /\ call.state = "called"
    /\ call' = [fn |-> call.fn, arg |-> call.arg, state |-> "returned",
                value |-> FlushFrame(call.arg)]
    /\ UNCHANGED <<pumpVars, streams, buffers>>
\* The client puts the parts of a candidate it received, unchanged, into a
\* model turn of its next request; origin keeps the calls they came from.
SendBack ==
    /\ call.state = "returned"
    /\ \/ /\ call.fn = "mapOpenAIResponseToGemini"
          /\ \E n \in 1..Len(call.value.candidates) :
                call' = [fn |-> "mapGeminiRequestToOpenAI",
                         arg |-> GeminiRequest(NoInstruction,
                                     <<Turn("model",
                                            PartsSent(call.value.candidates[n].content.parts))>>,
                                     NoConfig),
                         state |-> "called",
                         origin |-> FunctionToolCalls(call.arg.choices[n].tool_calls)]
       \/ /\ call.fn = "flush"
          /\ call' = [fn |-> "mapGeminiRequestToOpenAI",
                      arg |-> GeminiRequest(NoInstruction,
                                  <<Turn("model", PartsSent(call.value.parts))>>, NoConfig),
                      state |-> "called",
                      origin |-> LET indices == SortedIndices(DOMAIN call.arg)
                                   IN  [n \in 1..Len(indices) |-> call.arg[indices[n]]]]
    /\ UNCHANGED <<pumpVars, streams, buffers>>
NextRoundTrip ==
    CallGeminiResponseMapper \/ FlushToolCalls \/ SendBack \/ CallGeminiRequestMapper
SpecRoundTrip == InitRoundTrip /\ [][NextRoundTrip]_vars

\* -------------------------------------------- the generation parameters
\* A request that differs from others by its parameters only arrives at
\* either handler.
InitParameters ==
    /\ PumpInit
    /\ streams = NoStreams /\ buffers = NoStreams
    /\ \/ /\ mode = "anthropic"
          /\ \E req \in AnthropicParameterRequests :
                call = [fn |-> "mapAnthropicRequestToOpenAI", arg |-> req, state |-> "called"]
       \/ /\ mode = "gemini"
          /\ \E req \in GeminiParameterRequests :
                call = [fn |-> "mapGeminiRequestToOpenAI", arg |-> req, state |-> "called"]
NextParameters == CallRequestMapper \/ CallGeminiRequestMapper
SpecParameters == InitParameters /\ [][NextParameters]_vars

\* -------------------------------------------- requests of several messages
MaxMessages == 3
\* messages of bare string content between messages of blocks that give no
\* message, one message or two
ConversationMessages ==
    {[role |-> r, content |-> [t |-> "string", text |-> s]] : r \in Roles, s \in {"Hi", ""}}
    \cup {[role |-> "user", content |-> [t |-> "blocks", blocks |-> bl]] :
            bl \in {<< >>, <<TextBlock("Hello"), TextBlock("World")>>,
                    <<TextBlock("Hello"), ToolResultBlock("toolu_1", [t |-> "string", text |-> "ok"])>>}}
AnthropicConversations ==
    {AnthropicRequest(sy, msgs, [k \in {"max_tokens"} |-> 1024], [given |-> FALSE]) :
        sy \in {Undefined, "", "Be brief"},
        msgs \in UNION {[1..n -> ConversationMessages] : n \in 1..MaxMessages}}
InitConversation ==
    /\ PumpInit /\ mode = "anthropic"
    /\ streams = NoStreams /\ buffers = NoStreams
    /\ \E req \in AnthropicConversations :
          call = [fn |-> "mapAnthropicRequestToOpenAI", arg |-> req, state |-> "called"]
NextConversation == CallRequestMapper
SpecConversation == InitConversation /\ [][NextConversation]_vars

\* -------------------------------------------- turns with unsupported parts
\* utils.ts 381-386: the parts isExecutableCodePart and
\* isCodeExecutionResultPart accept
ExecutableCodePart == [executableCode |-> "python"]
CodeExecutionResultPart == [codeExecutionResult |-> "OUTCOME_OK"]
isUnsupportedPart(part) ==
    \/ "fileData" \in DOMAIN part
    \/ "executableCode" \in DOMAIN part
    \/ "codeExecutionResult" \in DOMAIN part
PartsOfAnyKind ==
    {TextPart("A"), TextPart("B"), InlineDataPart, FileDataPart, ExecutableCodePart,
     CodeExecutionResultPart, ResponseFunctionCallPart("call_1", "f", EmptyObject),
     FunctionResponsePart("call_1", "f")}
\* a request of one turn
InitUnsupported ==
    /\ PumpInit /\ mode = "gemini"
    /\ streams = NoStreams /\ buffers = NoStreams
    /\ \E role \in {"user", "model"}, parts \in PartLists(PartsOfAnyKind, MaxParts) :
          call = [fn |-> "mapGeminiRequestToOpenAI",
                  arg |-> GeminiRequest(NoInstruction, <<Turn(role, parts)>>, NoConfig),
                  state |-> "called"]
NextUnsupported == CallGeminiRequestMapper
SpecUnsupported == InitUnsupported /\ [][NextUnsupported]_vars

\* -------------------------------------------- the handlers
\* handleAnthropic (anthropic/handler.ts), handleGenerate and handleStream
\* (gemini/handler.ts) from the inbound request to the reply.  `call` holds
\* the inbound request and what the upstream will answer (arg), the place of
\* the handler (at), the number of request translations and of upstream
\* calls made, whether a stream pump was started, and the reply.
Handlers == {"handleAnthropic", "handleGenerate", "handleStream"}
\* the path: whether it holds the route marker, and what stands before it
Paths ==
    {[route |-> r, scheme |-> s, host |-> h] :
        r \in BOOLEAN, s \in {"", "https://"}, h \in {"", "api.example.com"}}
\* the credentials an inbound request may carry
NoAuthorization == [given |-> FALSE]
Authorizations ==
    {NoAuthorization, [given |-> TRUE, scheme |-> "Bearer", token |-> "sk"],
     [given |-> TRUE, scheme |-> "Bearer", token |-> ""],
     [given |-> TRUE, scheme |-> "Basic", token |-> "sk"]}
Credentials(handler) ==
    {[header |-> h, authorization |-> a, key |-> k] :
        h \in {Undefined, "", "sk"},
        a \in IF handler = "handleAnthropic" THEN Authorizations ELSE {NoAuthorization},
        k \in {Undefined, "sk"}}
\* the body: not JSON, or a request that asks for a stream or not
Bodies(handler) ==
    {[valid |-> FALSE]}
    \cup {[valid |-> TRUE, stream |-> s] :
            s \in IF handler = "handleAnthropic" THEN BOOLEAN ELSE {handler = "handleStream"}}
\* what fetch will give: a rejection, a 2xx response (with or without a body,
\* of JSON or not), or another status with a body text that can be read or
\* not
FetchOutcomes ==
    {[kind |-> "rejected"]}
    \cup {[kind |-> "response", status |-> 200, hasBody |-> b, json |-> j, text |-> "", readable |-> TRUE] :
            b \in BOOLEAN, j \in BOOLEAN}
    \cup {[kind |-> "response", status |-> s, hasBody |-> TRUE, json |-> FALSE, text |-> t, readable |-> r] :
            s \in {400, 429, 500}, t \in {"", "rate limited"}, r \in BOOLEAN}
Inbound(handler) ==
    {[path |-> p, credentials |-> c, body |-> b, upstream |-> u] :
        p \in Paths, c \in Credentials(handler), b \in Bodies(handler), u \in FetchOutcomes}

\* anthropic/utils.ts 3-14 and gemini url helper (mapper.ts 348-366): the
\* base URL of the path, null when there is none
parseBaseUrl(path) ==
    LET baseUrl == path.scheme \o path.host
    IN  IF ~path.route THEN JSNull
        ELSE IF baseUrl = "" THEN JSNull
        ELSE IF path.scheme = "" THEN "https://" \o baseUrl
        ELSE baseUrl
\* anthropic/utils.ts 16-28
extractAnthropicApiKey(c) ==
    LET fromHeader == c.header
        fromBearer ==
            IF Truthy(fromHeader) THEN fromHeader
            ELSE IF c.authorization.given /\ c.authorization.scheme = "Bearer"
            THEN c.authorization.token
            ELSE fromHeader
    IN  IF Truthy(fromBearer) THEN fromBearer ELSE c.key
\* gemini/handler.ts 23-26, 76-79
GeminiApiKey(c) == IF Truthy(c.header) THEN c.header ELSE c.key
ApiKeyOf(handler, c) ==
    IF handler = "handleAnthropic" THEN extractAnthropicApiKey(c) ELSE GeminiApiKey(c)

\* the replies; a field the body does not have is Undefined
ErrorReply(status, type, message, details) ==
    [status |-> status, kind |-> "error", type |-> type, message |-> message, details |-> details]
JsonReply == [status |-> 200, kind |-> "json", type |-> Undefined, message |-> Undefined,
              details |-> Undefined]
StreamReply == [status |-> 200, kind |-> "stream", type |-> Undefined, message |-> Undefined,
                details |-> Undefined]
\* `type` of the error body: the Anthropic handler gives one (except for the
\* path error), the Gemini handlers none
ErrorType(handler, type) == IF handler = "handleAnthropic" THEN type ELSE Undefined

\* a reply of 502 whatever the upstream status
UpstreamErrorAsBadGateway(handler, response) ==
    ErrorReply(502, ErrorType(handler, "api_error"), "OpenAI API Error", response.text)
\* anthropic/handler.ts 46-50, 83-87; gemini/handler.ts 52-56, 106-110
UpstreamErrorReply(handler, response) ==
    ErrorReply(response.status, ErrorType(handler, "api_error"), "OpenAI API Error",
               response.text)
\* anthropic/handler.ts 65-68, 93-96; gemini/handler.ts 62-65: the catch
InternalErrorReply(handler) ==
    ErrorReply(500, ErrorType(handler, "api_error"), "Internal Server Error", "error.message")

InitHandler ==
    /\ PumpInit
    /\ streams = NoStreams /\ buffers = NoStreams
    /\ \E handler \in Handlers :
          /\ mode = (IF handler = "handleAnthropic" THEN "anthropic" ELSE "handler")
          /\ \E inbound \in Inbound(handler) :
                call = [fn |-> handler, arg |-> inbound, state |-> "called", at |-> "path",
                        translations |-> 0, fetches |-> 0, pump |-> FALSE,
                        reply |-> [status |-> 0]]
Handling(at) == call.fn \in Handlers /\ call.state = "called" /\ call.at = at
Reply(reply) == [call EXCEPT !.state = "returned", !.reply = reply]
Goto(at) == [call EXCEPT !.at = at]

\* anthropic/handler.ts 12-16; gemini/handler.ts 16-19, 69-72
HandlerCheckPath ==
    /\ Handling("path")
    /\ call' = IF parseBaseUrl(call.arg.path) = JSNull
               THEN Reply(ErrorReply(400, Undefined, "Invalid path format", Undefined))
               ELSE Goto("key")
    /\ UNCHANGED <<pumpVars, streams, buffers>>
\* a handler that goes on without a credential
HandlerSkipKeyCheck ==
    /\ Handling("key")
    /\ call' = Goto("body")
    /\ UNCHANGED <<pumpVars, streams, buffers>>
\* anthropic/handler.ts 18-21; gemini/handler.ts 22-30, 75-83
HandlerCheckKey ==
    /\ Handling("key")
    /\ call' = IF ~Truthy(ApiKeyOf(call.fn, call.arg.credentials))
               THEN Reply(ErrorReply(401, ErrorType(call.fn, "authentication_error"),
                                     "missing api key", Undefined))
               ELSE Goto("body")
    /\ UNCHANGED <<pumpVars, streams, buffers>>
\* anthropic/handler.ts 23-28; gemini/handler.ts 32-37, 85-90
HandlerReadBody ==
    /\ Handling("body")
    /\ call' = IF ~call.arg.body.valid
               THEN Reply(ErrorReply(400, ErrorType(call.fn, "invalid_request_error"),
                                     "Invalid JSON body", Undefined))
               ELSE Goto("map")
    /\ UNCHANGED <<pumpVars, streams, buffers>>
\* anthropic/handler.ts 30; gemini/handler.ts 39, 92-93
HandlerTranslate ==
    /\ Handling("map")
    /\ call' = [call EXCEPT !.at = "fetch", !.translations = @ + 1]
    /\ UNCHANGED <<pumpVars, streams, buffers>>
\* anthropic/handler.ts 37-44, 74-81; gemini/handler.ts 43-50, 97-104: the
\* one await of fetch, and the catch when it rejects
HandlerFetch ==
    /\ Handling("fetch")
    /\ call' = IF call.arg.upstream.kind = "rejected"
               THEN [Reply(InternalErrorReply(call.fn)) EXCEPT !.fetches = @ + 1]
               ELSE [call EXCEPT !.at = "response", !.fetches = @ + 1]
    /\ UNCHANGED <<pumpVars, streams, buffers>>
\* anthropic/handler.ts 46-63, 83-92; gemini/handler.ts 52-61, 106-116
HandlerRespond ==
    /\ Handling("response")
    /\ LET response == call.arg.upstream
           ok == response.status \in 200..299
       IN  call' =
             IF ~ok
             THEN IF response.readable THEN Reply(UpstreamErrorReply(call.fn, response))
                  ELSE Reply(InternalErrorReply(call.fn))
             ELSE IF call.arg.body.stream
             THEN IF ~response.hasBody
                  THEN Reply(ErrorReply(500, ErrorType(call.fn, "api_error"),
                                        "No response body from OpenAI", Undefined))
                  ELSE [Reply(StreamReply) EXCEPT !.pump = TRUE]
             ELSE IF response.hasBody /\ response.json THEN Reply(JsonReply)
             ELSE Reply(InternalErrorReply(call.fn))
    /\ UNCHANGED <<pumpVars, streams, buffers>>
NextHandler ==
    \/ HandlerCheckPath
    \/ HandlerCheckKey
    \/ HandlerReadBody
    \/ HandlerTranslate
    \/ HandlerFetch
    \/ HandlerRespond
SpecHandler == InitHandler /\ [][NextHandler]_vars

\* -------------------------------------------- the queue-based Gemini mapper
\* gemini/mapper.ts 1-210: the request mapper gemini/handler.ts imports.  It
\* takes the id of a function call from args.__tool_call_id, or makes one
\* with Math.random, and keeps the ids of each function name in a queue
\* (ToolCallIdMap) the function responses take theirs from.
MaxTurns == 3
FunctionNames == {"f", "g"}
\* a functionCall part; id is args.__tool_call_id, Undefined when args has none
QueueCallPart(name, id) == [functionCall |-> [name |-> name, args |-> [tool_call_id |-> id]]]
QueueResponsePart(name) == [functionResponse |-> [name |-> name, response |-> EmptyObject]]
QueueTurns ==
    {Turn("model", <<QueueCallPart("f", "call_1")>>),
     Turn("model", <<QueueCallPart("f", Undefined)>>),
     Turn("model", <<QueueCallPart("f", "call_1"), QueueCallPart("f", "call_2")>>),
     Turn("model", <<QueueCallPart("f", Undefined), QueueCallPart("g", Undefined)>>),
     Turn("model", <<TextPart("A"), QueueCallPart("g", "call_3"), QueueResponsePart("f")>>),
     Turn("function", <<QueueResponsePart("f")>>),
     Turn("function", <<QueueResponsePart("g")>>),
     Turn("function", <<QueueResponsePart("f"), QueueResponsePart("f")>>),
     Turn("function", <<QueueResponsePart("g"), QueueResponsePart("f")>>),
     Turn("user", <<TextPart("A"), InlineDataPart>>)}
QueueRequests ==
    {[contents |-> c] : c \in UNION {[1..n -> QueueTurns] : n \in 1..MaxTurns}}
\* one request, or a request that leaves ids in the queues followed by one of
\* function responses only
QueueSessions ==
    {<<req>> : req \in QueueRequests}
    \cup {<<[contents |-> <<first>>], [contents |-> <<second>>]>> :
            first \in {t \in QueueTurns : t.role = "model"},
            second \in {t \in QueueTurns : t.role = "function"}}

\* mapper.ts 23: `new Map()`
NewToolCallIds == [name \in FunctionNames |-> << >>]
\* mapper.ts 116: the id Math.random gives at its r-th call
RandomId(r) == "call_r" \o ToString(r)
\* the numbers Math.random may give at its n calls: all different, or the same
\* one each time
Randoms(n) == {[i \in 1..n |-> i], [i \in 1..n |-> 0]}
RECURSIVE NumRandoms(_)
NumRandoms(contents) ==
    IF contents = << >> THEN 0
    ELSE Len(SelectSeq(Head(contents).parts, isFunctionCallPart)) + NumRandoms(Tail(contents))

\* mapper.ts 186-209 (the mapper's own convertPartsToOpenAIContent)
QueueConvertParts(parts) ==
    IF \A n \in 1..Len(parts) : isTextPart(parts[n]) /\ ~isInlineDataPart(parts[n])
    THEN [t |-> "string", text |-> JoinLines(TextsOfParts(parts))]
    ELSE [t |-> "parts",
          parts |-> [n \in 1..Len(parts) |->
                        IF isTextPart(parts[n]) /\ parts[n].text # ""
                        THEN ContentText(parts[n].text)
                        ELSE IF isInlineDataPart(parts[n])
                        THEN ContentImage("data:" \o parts[n].inlineData)
                        ELSE ContentText("[Unsupported Content Part]")]]

\* the ids are taken from the end of the queue
TakeLastId(ids) ==
    IF ids = << >> THEN [id |-> "call_unknown", ids |-> ids]
    ELSE [id |-> ids[Len(ids)], ids |-> SubSeq(ids, 1, Len(ids) - 1)]
\* mapper.ts 159-160: `ids.shift() || 'call_unknown'`
TakeId(ids) ==
    IF ids = << >> THEN [id |-> "call_unknown", ids |-> ids]
    ELSE [id |-> Head(ids), ids |-> Tail(ids)]

\* mapper.ts 113-136: the tool calls of the function calls of a turn; every
\* call reads Math.random (116), r counts the readings
RECURSIVE QueueToolCalls(_, _, _, _)
QueueToolCalls(functionCalls, toolCallIds, random, r) ==
    IF functionCalls = << >> THEN [toolCalls |-> << >>, toolCallIds |-> toolCallIds, r |-> r]
    ELSE LET fc == Head(functionCalls).functionCall
             id == IF Truthy(fc.args.tool_call_id) THEN fc.args.tool_call_id
                   ELSE RandomId(random[r])
             recorded == [toolCallIds EXCEPT ![fc.name] = Append(@, id)]
             rest == QueueToolCalls(Tail(functionCalls), recorded, random, r + 1)
         IN  [toolCalls |-> <<[id |-> id, type |-> "function", name |-> fc.name,
                               arguments |-> EmptyObject]>> \o rest.toolCalls,
              toolCallIds |-> rest.toolCallIds, r |-> rest.r]
\* mapper.ts 155-168: the tool messages of the function responses of a turn
RECURSIVE QueueToolMessages(_, _)
QueueToolMessages(functionResponses, toolCallIds) ==
    IF functionResponses = << >> THEN [messages |-> << >>, toolCallIds |-> toolCallIds]
    ELSE LET fr == Head(functionResponses).functionResponse
             taken == TakeId(toolCallIds[fr.name])
             rest == QueueToolMessages(Tail(functionResponses),
                                       [toolCallIds EXCEPT ![fr.name] = taken.ids])
         IN  [messages |-> <<[role |-> "tool", tool_call_id |-> taken.id,
                              content |-> [json |-> fr.response]]>> \o rest.messages,
              toolCallIds |-> rest.toolCallIds]
\* mapper.ts 107-184
QueueConvertContent(content, toolCallIds, random, r) ==
    LET parts == content.parts
        functionCalls == SelectSeq(parts, isFunctionCallPart)
        functionResponses == SelectSeq(parts, isFunctionResponsePart)
        otherParts == SelectSeq(parts, LAMBDA p : ~isFunctionCallPart(p))
    IN  IF functionCalls # << >>
        THEN LET made == QueueToolCalls(functionCalls, toolCallIds, random, r)
             IN  [messages |-> <<[role |-> "assistant",
                                  content |-> IF otherParts # << >>
                                              THEN QueueConvertParts(otherParts)
                                              ELSE [t |-> JSNull],
                                  tool_calls |-> made.toolCalls]>>,
                  toolCallIds |-> made.toolCallIds, r |-> made.r]
        ELSE IF functionResponses # << >>
        THEN LET made == QueueToolMessages(functionResponses, toolCallIds)
             IN  [messages |-> made.messages, toolCallIds |-> made.toolCallIds, r |-> r]
        ELSE [messages |-> <<[role |-> IF content.role = "model" THEN "assistant" ELSE "user",
                              content |-> QueueConvertParts(parts)]>>,
              toolCallIds |-> toolCallIds, r |-> r]
\* mapper.ts 50-55
RECURSIVE QueueConvertContents(_, _, _, _)
QueueConvertContents(contents, toolCallIds, random, r) ==
    IF contents = << >> THEN << >>
    ELSE LET first == QueueConvertContent(Head(contents), toolCallIds, random, r)
         IN  first.messages
             \o QueueConvertContents(Tail(contents), first.toolCallIds, random, first.r)
\* mapper.ts 21-105: the messages of the OpenAI request
QueueMapGeminiRequestToOpenAI(geminiReq, model, random) ==
    [model |-> model,
     messages |-> QueueConvertContents(geminiReq.contents, NewToolCallIds, random, 1)]

\* the requests of a session are mapped one after the other
InitQueue ==
    /\ PumpInit /\ mode = "handler"
    /\ streams = NoStreams /\ buffers = NoStreams
    /\ \E session \in QueueSessions :
          call = [fn |-> "mapper/mapGeminiRequestToOpenAI", arg |-> session,
                  state |-> "called", value |-> << >>]
CallQueueMapper ==
    /\ call.fn = "mapper/mapGeminiRequestToOpenAI"
    /\ call.state = "called"
    /\ LET geminiReq == call.arg[Len(call.value) + 1]
       IN  \E random \in Randoms(NumRandoms(geminiReq.contents)) :
              call' = [call EXCEPT
                          !.value = Append(@, QueueMapGeminiRequestToOpenAI(geminiReq, "gemini-pro",
                                                                            random)),
                          !.state = IF Len(call.value) + 1 = Len(call.arg)
                                    THEN "returned" ELSE "called"]
    /\ UNCHANGED <<pumpVars, streams, buffers>>
NextQueue == CallQueueMapper
SpecQueue == InitQueue /\ [][NextQueue]_vars

\* -------------------------------------------- reads and lines
\* anthropic/sse.ts 49-61 and gemini/sse.ts 23-35 on the bytes of the body:
\* a read appends a block of any size to `buffer`, the complete lines are
\* split off and handled, the rest stays in `buffer`.  A body is a sequence
\* of atoms: "data" and ": " make the prefix `data: `, "{", a letter and "}"
\* the JSON text of a chunk, "[DONE]" the end marker, "\n" the line feed.
MaxBodyLines == 2
LineFeed == "\n"
LineTexts ==
    {<<"data", ": ", "{", "a", "}">>, <<"data", ": ", "{", "t", "}">>,
     <<"data", ": ", "{", "f", "}">>, <<"data", ": ", "{", "a">>,
     <<"data", ": ", "[DONE]">>, <<"data", ": ">>, <<"data">>, << >>}
RECURSIVE JoinBody(_)
JoinBody(texts) ==
    IF texts = << >> THEN << >> ELSE Head(texts) \o <<LineFeed>> \o JoinBody(Tail(texts))
\* bodies of lines that end with a line feed, and the same with a last line
\* that does not
UpstreamBodies ==
    LET whole == {JoinBody(texts) : texts \in UNION {[1..n -> LineTexts] : n \in 1..MaxBodyLines}}
    IN  whole \cup {body \o <<"data", ": ", "{", "f", "}">> : body \in whole}

\* the chunk JSON.parse gives for the text of a payload
ChunkOfLetter(letter) ==
    CASE letter = "a" -> Chunk("one", TRUE, "string", "Hi", << >>, JSNull)
      [] letter = "t" -> Chunk("one", TRUE, Undefined, "", <<ToolStart(0), ToolFrag(0, <<"1">>)>>, JSNull)
      [] letter = "f" -> Chunk("one", TRUE, Undefined, "", << >>, "stop")
\* sse.ts 58-63 of both pumps: what the for loop takes the line for
LineOfText(text) ==
    IF Len(text) < 2 \/ text[1] # "data" \/ text[2] # ": " THEN OtherLine
    ELSE LET data == SubSeq(text, 3, Len(text))
         IN  IF data = <<"[DONE]">> \/ data = << >> THEN DoneLine
             ELSE IF Len(data) = 3 /\ data[1] = "{" /\ data[3] = "}" /\ data[2] \in {"a", "t", "f"}
             THEN ChunkOfLetter(data[2])
             ELSE BadJSON

\* `buffer.split('\n')`: the texts between the line feeds, the last one being
\* what follows the last line feed
RECURSIVE SplitAtLineFeeds(_, _)
SplitAtLineFeeds(text, current) ==
    IF text = << >> THEN <<current>>
    ELSE IF Head(text) = LineFeed THEN <<current>> \o SplitAtLineFeeds(Tail(text), << >>)
    ELSE SplitAtLineFeeds(Tail(text), Append(current, Head(text)))
\* a pump that keeps nothing of an incomplete line
PopNothing(split) == << >>
\* `buffer = lines.pop() || ''`
PopLast(split) == split[Len(split)]

\* what a pump writes for one line while the client reads, and the
\* toolCallBuffer it goes on with (sse.ts 62-72; gemini/sse.ts 36-81)
HandleLine(pump, line, buf) ==
    IF Skipped(line) THEN [out |-> << >>, buf |-> buf]
    ELSE IF pump = "anthropic"
    THEN [out |-> mapOpenAIStreamChunkToAnthropic(line), buf |-> buf]
    ELSE IF GeminiMapThrows(line) THEN [out |-> << >>, buf |-> buf]
    ELSE LET after == BufferChunk(buf, line)
         IN  [out |-> (IF HasTextFrame(line) THEN <<mapOpenAIStreamChunkToGemini(line)[1]>>
                       ELSE << >>)
                      \o (IF NeedsFlush(after, line) THEN <<FlushFrame(after)>> ELSE << >>),
              buf |-> after]
RECURSIVE HandleLines(_, _, _)
HandleLines(pump, texts, buf) ==
    IF texts = << >> THEN [out |-> << >>, buf |-> buf]
    ELSE LET first == HandleLine(pump, LineOfText(Head(texts)), buf)
             rest == HandleLines(pump, Tail(texts), first.buf)
         IN  [out |-> first.out \o rest.out, buf |-> rest.buf]

\* a pump reads a body block by block
InitReads ==
    /\ PumpInit
    /\ streams = NoStreams /\ buffers = NoStreams
    /\ mode \in {"anthropic", "gemini"}
    /\ \E body \in UpstreamBodies :
          call = [fn |-> "pump", arg |-> body, state |-> "called", unread |-> body,
                  buffer |-> << >>, toolCallBuffer |-> EmptyBuffer, out |-> << >>]
\* sse.ts 50-76: one read of a block of n atoms and the for loop over the
\* lines it completes
ReadBlock ==
    /\ call.fn = "pump" /\ call.state = "called"
    /\ \E n \in 1..Len(call.unread) :
          LET split == SplitAtLineFeeds(call.buffer \o SubSeq(call.unread, 1, n), << >>)
              handled == HandleLines(mode, SubSeq(split, 1, Len(split) - 1), call.toolCallBuffer)
          IN  call' = [call EXCEPT !.unread = SubSeq(@, n + 1, Len(@)),
                                   !.buffer = PopLast(split),
                                   !.toolCallBuffer = handled.buf,
                                   !.out = @ \o handled.out]
    /\ UNCHANGED <<pumpVars, streams, buffers>>
\* sse.ts 51: the read that reports done
ReadEnd ==
    /\ call.fn = "pump" /\ call.state = "called"
    /\ call.unread = << >>
    /\ call' = [call EXCEPT !.state = "returned"]
    /\ UNCHANGED <<pumpVars, streams, buffers>>
NextReads == ReadBlock \/ ReadEnd
SpecReads == InitReads /\ [][NextReads]_vars

\* ------------------------------------------------------------ the claims
\* A step in which the for loop takes one line.
LineStep == pc = "line" /\ lines' = lines - 1
\* A step in which a client write resolved.
WroteStep == written' # written
\* A step of the client, not of the pump.
ClientLeaves == clientOpen' # clientOpen
Last(seq) == seq[Len(seq)]

IsToolStart(e) == e.type = "content_block_start" /\ e.block = "tool_use"
IsTextDelta(e) == e.type = "content_block_delta" /\ e.delta = "text_delta"
IsJsonDelta(e) == e.type = "content_block_delta" /\ e.delta = "input_json_delta"
\* the first choice of the line is there and has a delta
HasDelta(line) == line.kind = "chunk" /\ line.choices = "one" /\ line.has_delta
\* the first choice of the line is there and carries a finish reason
HasFinish(line) == line.kind = "chunk" /\ line.choices = "one" /\ line.finish_reason # JSNull

\* C1: in the Anthropic pump the first event written is message_start
\* (empty content, zero usage), the second is content_block_start of the
\* empty text block 0, neither is written again, and both have been written
\* before the pump reads the upstream, so before any event of a chunk.
C1_StartEventsFirst ==
    mode = "anthropic" =>
        /\ Len(written) >= 1 =>
              /\ written[1].type = "message_start"
              /\ written[1].content = << >>
              /\ written[1].input_tokens = 0 /\ written[1].output_tokens = 0
        /\ Len(written) >= 2 =>
              written[2] = [type |-> "content_block_start", index |-> 0,
                            block |-> "text", text |-> ""]
        /\ \A n \in 3..Len(written) :
              /\ written[n].type # "message_start"
              /\ written[n].type = "content_block_start" => written[n].block # "text"
        /\ pc \in {"read", "line", "write_event"} => Len(written) >= 2
        /\ delivered > 0 => Len(written) + Len(failed) >= 2

\* C1 witness: a stream whose start events were followed by chunk events.
C1_Witness ==
    /\ mode = "anthropic"
    /\ pc = "done"
    /\ Len(written) >= 4
    /\ written[3].type = "content_block_delta"

\* The three terminal events, last in the list and nowhere else in it.
EndsWithFinish(evs, reason) ==
    /\ Len(evs) >= 3
    /\ evs[Len(evs) - 2] = [type |-> "content_block_stop", index |-> 0]
    /\ evs[Len(evs) - 1].type = "message_delta"
    /\ evs[Len(evs) - 1].stop_reason = mapFinishReason(reason)
    /\ evs[Len(evs)].type = "message_stop"
    /\ \A n \in 1..(Len(evs) - 3) :
          evs[n].type \notin {"content_block_stop", "message_delta", "message_stop"}

\* C2 as claimed: every chunk whose first choice has a non-null
\* finish_reason maps to a list ending in content_block_stop(0),
\* message_delta(mapped reason), message_stop.
C2_AsClaimed ==
    [][(mode = "anthropic" /\ LineStep /\ HasFinish(chunk'))
        => EndsWithFinish(events', chunk'.finish_reason)]_vars

\* C2 amended: every chunk whose first choice has a delta and a non-empty
\* finish_reason maps to a list ending in exactly content_block_stop(0),
\* message_delta(mapped reason), message_stop, whatever tool-call blocks
\* were opened; a choice without a delta maps to no event at all and an
\* empty finish_reason to none of the three.
C2_FinishEventsLast ==
    [][(mode = "anthropic" /\ LineStep /\ HasFinish(chunk'))
        => IF chunk'.has_delta /\ chunk'.finish_reason # ""
           THEN EndsWithFinish(events', chunk'.finish_reason)
           ELSE /\ ~chunk'.has_delta => events' = << >>
                /\ \A n \in 1..Len(events') :
                      events'[n].type \notin
                          {"content_block_stop", "message_delta", "message_stop"}]_vars

\* C2 witness: tool-call blocks were opened and the stream ended with the
\* three terminal events.
C2_Witness ==
    /\ mode = "anthropic"
    /\ HasFinish(chunk) /\ chunk.has_delta
    /\ events = << >>
    /\ Len(written) >= 6
    /\ EndsWithFinish(written, chunk.finish_reason)
    /\ \E n \in 1..Len(written) : IsToolStart(written[n]) /\ written[n].index > 0

\* the tool-call deltas of a line, in order
ToolCallsOf(line) == IF HasDelta(line) THEN line.tool_calls ELSE << >>
\* a block for index i was opened by an earlier chunk
OpenedBefore(i) == \E n \in 1..Len(written) : IsToolStart(written[n]) /\ written[n].index = i
SuppliesName(line, i) ==
    \E n \in 1..Len(ToolCallsOf(line)) :
        ToolCallsOf(line)[n].index = i /\ ToolCallsOf(line)[n].name # ""
StartsFor(evs, i) == Cardinality({n \in 1..Len(evs) : IsToolStart(evs[n]) /\ evs[n].index = i})
HasFragment(tc) == tc.arguments # << >>
FragmentDelta(tc) == [index |-> tc.index, partial_json |-> tc.arguments]
RECURSIVE FragmentsOf(_)
FragmentsOf(tcs) ==
    IF tcs = << >> THEN << >>
    ELSE (IF HasFragment(Head(tcs)) THEN <<FragmentDelta(Head(tcs))>> ELSE << >>)
         \o FragmentsOf(Tail(tcs))
RECURSIVE JsonDeltasOf(_)
JsonDeltasOf(evs) ==
    IF evs = << >> THEN << >>
    ELSE (IF IsJsonDelta(Head(evs))
          THEN <<[index |-> Head(evs).index, partial_json |-> Head(evs).partial_json]>>
          ELSE << >>)
         \o JsonDeltasOf(Tail(evs))

\* C3 as claimed: a chunk opens the tool_use block of index i exactly when
\* it is the first chunk of the stream to supply a function name for i, and
\* its input_json_delta events are its argument fragments, verbatim and in
\* order.
C3_AsClaimed ==
    [][(mode = "anthropic" /\ LineStep /\ HasDelta(chunk')) =>
        /\ \A i \in Indexes :
              StartsFor(events', i) =
                  IF SuppliesName(chunk', i) /\ ~OpenedBefore(i) THEN 1 ELSE 0
        /\ JsonDeltasOf(events') = FragmentsOf(ToolCallsOf(chunk'))]_vars

IsFunctionCall(part) == "functionCall" \in DOMAIN part
HasFunctionCall(frame) == \E n \in 1..Len(frame.parts) : IsFunctionCall(frame.parts[n])
\* the indexes for which a delta was received, and for one of them the first
\* delta and all argument fragments in arrival order
ReceivedIndexes(rcv) == {rcv[n].index : n \in 1..Len(rcv)}
FirstFor(rcv, i) ==
    rcv[CHOOSE n \in 1..Len(rcv) :
            rcv[n].index = i /\ \A m \in 1..(n - 1) : rcv[m].index # i]
RECURSIVE ConcatFor(_, _)
ConcatFor(rcv, i) ==
    IF rcv = << >> THEN << >>
    ELSE (IF Head(rcv).index = i THEN Head(rcv).arguments ELSE << >>)
         \o ConcatFor(Tail(rcv), i)
ExpectedPart(rcv, i) ==
    LET parsed == ParseJSON(ConcatFor(rcv, i))
    IN  [functionCall |->
            [id |-> FirstFor(rcv, i).id, name |-> FirstFor(rcv, i).name,
             args |-> IF parsed.ok THEN parsed.value ELSE EmptyObject]]
\* what is on the wire of a part (the buffer key is not)
OnWire(part) == [functionCall |-> part.functionCall]

\* C4 as claimed: a Gemini pump writes a functionCall part only when the
\* chunk in hand has a finish reason, and the frame it then writes has, for
\* every tool-call index received so far, exactly one part, with the id and
\* name first received for the index and with args the JSON parse of all
\* argument fragments received for it, concatenated ({} when that is not
\* JSON).
C4_AsClaimed ==
    [][(mode \in GeminiModes /\ WroteStep) =>
        LET frame == Last(written')
        IN  IF pc = "write_flush"
            THEN /\ HasFinish(chunk)
                 /\ Len(frame.parts) = Cardinality(ReceivedIndexes(received))
                 /\ \A i \in ReceivedIndexes(received) :
                       Cardinality({n \in 1..Len(frame.parts) :
                           OnWire(frame.parts[n]) = ExpectedPart(received, i)}) = 1
            ELSE ~HasFunctionCall(frame)]_vars

\* how often the call of index i was written
FlushesOf(i) ==
    Cardinality({<<n, k>> \in (1..Len(written)) \X (1..(MaxIndex + 1)) :
        /\ k <= Len(written[n].parts)
        /\ IsFunctionCall(written[n].parts[k])
        /\ written[n].parts[k].index = i})
Ascending(parts) ==
    \A k \in 1..(Len(parts) - 1) :
        (IsFunctionCall(parts[k]) /\ IsFunctionCall(parts[k + 1]))
            => parts[k].index < parts[k + 1].index

\* C5 as claimed: in the pump of gemini/sse.ts no buffered tool call is
\* written in more than one frame of a stream, however many chunks carry a
\* finish reason, and the parts of a flush frame are in ascending index
\* order.
C5_AsClaimed ==
    mode = "gemini" =>
        /\ \A i \in DOMAIN toolCallBuffer : FlushesOf(i) <= 1
        /\ \A n \in 1..Len(written) : Ascending(written[n].parts)

RECURSIVE TextDeltasOf(_)
TextDeltasOf(evs) ==
    IF evs = << >> THEN << >>
    ELSE (IF IsTextDelta(Head(evs)) THEN <<Head(evs)>> ELSE << >>) \o TextDeltasOf(Tail(evs))
CarriesContent(line) == HasDelta(line) /\ line.content_kind = "string" /\ line.content # ""

HasStringContent(line) == HasDelta(line) /\ line.content_kind = "string"
\* the pump of gemini/sse.ts takes a line
GeminiLineStep == mode = "gemini" /\ LineStep
\* what the pump of gemini/sse.ts writes is a text frame of the chunk in hand
\* or the flush frame
GeminiWrites ==
    (mode = "gemini" /\ WroteStep) =>
        \/ /\ pc = "write_text"
           /\ Last(written').parts = <<[text |-> chunk.content]>>
        \/ /\ pc = "write_flush"
           /\ HasFunctionCall(Last(written'))

\* C7 as claimed: the pump of gemini/sse.ts goes to the write of a text
\* frame exactly for a chunk whose delta.content is a non-empty string.
C7_AsClaimed ==
    [][/\ GeminiLineStep => (pc' = "write_text" <=> CarriesContent(chunk'))
       /\ GeminiWrites]_vars

\* C7 amended: the pump goes to the write of a text frame, as the step
\* that follows the line, exactly for a chunk whose delta.content is a
\* string, the empty string included; for a chunk whose content is absent
\* or null it writes no frame but the flush frame.
C7_TextFramePerChunk ==
    [][/\ GeminiLineStep => (pc' = "write_text" <=> HasStringContent(chunk'))
       /\ (mode = "gemini" /\ pc = "write_text" /\ ~ClientLeaves) =>
             /\ HasStringContent(chunk)
             /\ \/ written' = Append(written, Frame(<<[text |-> chunk.content]>>,
                                   IF chunk.finish_reason \in {JSNull, ""} THEN Undefined
                                   ELSE GeminiFinishReason(chunk.finish_reason)))
                \/ written' = written /\ ~clientOpen
       /\ GeminiWrites]_vars

\* C7 witness: a frame with an empty text part was written, and a frame
\* with text.
C7_Witness ==
    /\ mode = "gemini"
    /\ \E n \in 1..Len(written) : written[n].parts = <<[text |-> ""]>>
    /\ \E n \in 1..Len(written) : written[n].parts = <<[text |-> "Hi"]>>

\* C8 as claimed: in the Anthropic pump a rejected write is the last thing
\* the pump does with either stream: no second write (so no error event),
\* no read, no line, and no exception leaves.
C8_AsClaimed ==
    (mode = "anthropic" /\ failed # << >>) =>
        /\ Len(failed) = 1
        /\ afterFail = NothingAfterFail
        /\ ~uncaught

\* C9 as claimed: the same for the Gemini pumps, the write of the flush
\* frame included.
C9_AsClaimed ==
    (mode \in GeminiModes /\ failed # << >>) =>
        /\ Len(failed) = 1
        /\ afterFail = NothingAfterFail
        /\ ~uncaught

\* C10: in every pump a line whose payload is not JSON changes nothing but
\* the position in `lines`: nothing is written or attempted, the events in
\* hand, the tool-call buffer and the streams are as before, and the pump
\* goes on with the next line or the next read.
C10_MalformedLineSkipped ==
    [][(LineStep /\ chunk' = BadJSON) =>
        /\ UNCHANGED <<upstream, mode, clientOpen, delivered, events, toolCallBuffer, received,
                       written, failed, closed, uncaught>>
        /\ pc' = IF lines' = 0 THEN "read" ELSE "line"]_vars

\* C10 witness: a malformed line was skipped in mid-stream and the pump is
\* at the next line.
C10_Witness ==
    /\ chunk = BadJSON
    /\ pc = "line"
    /\ written # << >>
    /\ mode \in GeminiModes => toolCallBuffer # EmptyBuffer
    /\ ~closed

ErrorsIn(seq) == {n \in 1..Len(seq) : seq[n].type = "error"}

\* C11: in the Anthropic pump a fault of the upstream read takes the pump to
\* its outer catch, which writes the error event with the generic message
\* once (the write resolves while the client reads and is rejected, and
\* ignored, after it has gone) and goes on to close the writer, writing
\* nothing more: the client is sent at most one error event and it is the
\* last event it is sent.
C11_ErrorEventThenClose ==
    [][mode = "anthropic" =>
        /\ (pc = "read" /\ pc' \notin {"read", "line", "finally"}) =>
              /\ pc' = "catch"
              /\ ErrorsIn(written) = {}
              /\ ~closed
        /\ (pc = "catch" /\ ~ClientLeaves) =>
              /\ IF clientOpen
                 THEN written' = Append(written, [type |-> "error", message |-> "Stream error"])
                      /\ failed' = failed
                 ELSE written' = written
                      /\ failed' = Append(failed, [type |-> "error", message |-> "Stream error"])
              /\ pc' = "finally"
        /\ (pc = "finally" /\ ~ClientLeaves) =>
              /\ closed' /\ pc' = "done" /\ ~uncaught'
              /\ written' = written /\ failed' = failed
        /\ pc = "done" => closed /\ written' = written /\ failed' = failed
        /\ Cardinality(ErrorsIn(written')) <= 1
        /\ ErrorsIn(written') \subseteq {Len(written')}]_vars

\* C11 witness: the upstream failed in mid-stream, the error event was
\* written after the events of the chunks and the writer is closed.
C11_Witness ==
    /\ mode = "anthropic"
    /\ pc = "done" /\ closed
    /\ Len(written) >= 4
    /\ Last(written) = ErrorEvent
    /\ failed = << >>

\* C12 as claimed: when a pump has ended, by the end of the upstream, by a
\* fault or after the client has gone, writer.close() has been called and
\* the reader no longer holds an open upstream body.
C12_AsClaimed == pc = "done" => (closed /\ upstream # "open")

IsSuffix(s, t) == Len(s) <= Len(t) /\ s = SubSeq(t, Len(t) - Len(s) + 1, Len(t))
\* the write resolved with e or was rejected
Attempted(e) ==
    \/ written' = Append(written, e) /\ failed' = failed
    \/ written' = written /\ failed' = Append(failed, e)

\* C13: what a pump writes in the read loop comes from the line it took
\* last, and it takes the next line only with nothing of that line left to
\* write, so the output of a chunk precedes the output of every later
\* chunk.  The Anthropic pump writes the events of the chunk in hand in the
\* order of the mapper; a Gemini pump writes the text frame of the chunk in
\* hand and, only on a chunk with a finish reason and after that chunk's text
\* frame, the flush frame of the calls buffered so far.
C13_OutputInChunkOrder ==
    [][/\ (mode = "anthropic" /\ pc = "write_event" /\ ~ClientLeaves) =>
              /\ events # << >>
              /\ IsSuffix(events, mapOpenAIStreamChunkToAnthropic(chunk))
              /\ Attempted(Head(events))
              /\ events' = Tail(events)
              /\ pc' \in {"line", "read"} => events' = << >>
       /\ (mode \in GeminiModes /\ pc = "write_text" /\ ~ClientLeaves) =>
              /\ chunk.kind = "chunk"
              /\ Attempted(mapOpenAIStreamChunkToGemini(chunk)[1])
       /\ (mode \in GeminiModes /\ pc = "write_flush" /\ ~ClientLeaves) =>
              /\ HasFinish(chunk) /\ chunk.finish_reason # ""
              /\ HasTextFrame(chunk) =>
                    /\ written # << >>
                    /\ Last(written) = mapOpenAIStreamChunkToGemini(chunk)[1]
              /\ \E frame \in {FlushFrame(toolCallBuffer), HandlerFlushFrame(toolCallBuffer)} :
                    Attempted(frame)
       /\ LineStep => events = << >>
       /\ (WroteStep \/ failed' # failed) =>
              pc \in {"message_start", "content_block_start", "catch",
                      "write_event", "write_text", "write_flush"}]_vars

\* C13 witness: a Gemini stream with text frames of two chunks and then,
\* on the finish chunk, its text frame followed by the flush frame.
C13_Witness ==
    /\ mode = "gemini"
    /\ Len(written) >= 3
    /\ HasFunctionCall(Last(written))
    /\ written[Len(written) - 1].parts = <<[text |-> "Hi"]>>
    /\ written[Len(written) - 1].finishReason = "MAX_TOKENS"
    /\ written[1].parts = <<[text |-> ""]>>

IsPrefix(s, t) == Len(s) <= Len(t) /\ s = SubSeq(t, 1, Len(s))
\* what the Gemini translator writes for the lines ls, starting with the
\* tool-call buffer buf, when it runs alone and the client reads everything
RECURSIVE AloneGemini(_, _)
AloneGemini(buf, ls) ==
    IF ls = << >> THEN << >>
    ELSE LET l == Head(ls)
         IN  IF Skipped(l) \/ GeminiMapThrows(l) THEN AloneGemini(buf, Tail(ls))
             ELSE (IF HasTextFrame(l) THEN <<mapOpenAIStreamChunkToGemini(l)[1]>> ELSE << >>)
                  \o (IF NeedsFlush(BufferChunk(buf, l), l)
                      THEN <<FlushFrame(BufferChunk(buf, l))>> ELSE << >>)
                  \o AloneGemini(BufferChunk(buf, l), Tail(ls))
RECURSIVE AloneAnthropic(_)
AloneAnthropic(ls) ==
    IF ls = << >> THEN << >>
    ELSE (IF Skipped(Head(ls)) THEN << >> ELSE mapOpenAIStreamChunkToAnthropic(Head(ls)))
         \o AloneAnthropic(Tail(ls))
Alone(kind, script) ==
    IF kind = "anthropic" THEN <<MessageStart, TextBlockStart>> \o AloneAnthropic(script)
    ELSE AloneGemini(EmptyBuffer, script)

\* C14: with two streams translated at once, their reads and writes
\* interleaved in any order, what each stream has written is at every moment
\* the beginning of what it writes when translated alone, and all of it once
\* the stream has ended with its client still reading.
C14_StreamsIndependent ==
    \A s \in DOMAIN streams :
        /\ IsPrefix(streams[s].written, Alone(streams[s].kind, streams[s].script))
        /\ (streams[s].pc = "done" /\ streams[s].open) =>
              streams[s].written = Alone(streams[s].kind, streams[s].script)

\* C14 witness: two Gemini streams have run to their end side by side, one
\* with its tool call flushed and one with its text frame only.
C14_Witness ==
    /\ DOMAIN streams = StreamIds
    /\ \A s \in StreamIds : streams[s].pc = "done" /\ streams[s].open /\ streams[s].kind = "gemini"
    /\ HasFunctionCall(Last(streams["s1"].written))
    /\ Len(streams["s2"].written) = 1
    /\ ~HasFunctionCall(streams["s2"].written[1])

\* ---------------------------------------------------------------- requests
ReqReturned == call.fn = "mapAnthropicRequestToOpenAI" /\ call.state = "returned"
ReqMessage == call.arg.messages[1]
ReqOfBlocks == ReqReturned /\ ReqMessage.content.t = "blocks"
ReqBlocks == ReqMessage.content.blocks
\* the output without the system message
ReqOutput ==
    IF call.arg.system # Undefined THEN Tail(call.value.messages) ELSE call.value.messages
BlockMessage(role, bl) == [role |-> role, content |-> [t |-> "blocks", blocks |-> bl]]
RolesOf(msgs) == [n \in 1..Len(msgs) |-> msgs[n].role]
TypesOf(bl) == [n \in 1..Len(bl) |-> bl[n].type]
ToolMessages(msgs) == SelectSeq(msgs, LAMBDA m : m.role = "tool")
ToolResults(bl) == SelectSeq(bl, LAMBDA b : b.type = "tool_result")

\* C15: the output of a block-list message follows the block order. At each
\* tool_result block the output is what the blocks before it give as a message
\* of their own, then one message of role tool whose tool_call_id is the
\* block's tool_use_id, then what the blocks after it give as a message of
\* their own; blocks without a tool_result give at most one message; the tool
\* messages are those of the tool_result blocks in order; and a user message
\* of text, tool_result, text gives exactly user, tool, user.
C15_FlushedAtToolResult ==
    ReqOfBlocks =>
        LET bl == ReqBlocks
            role == ReqMessage.role
            tools == ToolMessages(ReqOutput)
            results == ToolResults(bl)
        IN  /\ \A p \in 1..Len(bl) :
                  bl[p].type = "tool_result" =>
                      ReqOutput =
                          MapMessage(BlockMessage(role, SubSeq(bl, 1, p - 1)))
                          \o <<[role |-> "tool", content |-> bl[p].content,
                                tool_call_id |-> bl[p].tool_use_id]>>
                          \o MapMessage(BlockMessage(role, SubSeq(bl, p + 1, Len(bl))))
            /\ results = << >> => Len(ReqOutput) <= 1
            /\ Len(tools) = Len(results)
            /\ \A n \in 1..Len(tools) : tools[n].tool_call_id = results[n].tool_use_id
            /\ (role = "user" /\ TypesOf(bl) = <<"text", "tool_result", "text">>)
                   => RolesOf(ReqOutput) = <<"user", "tool", "user">>
C15_Witness ==
    /\ ReqOfBlocks
    /\ ReqMessage.role = "user"
    /\ TypesOf(ReqBlocks) = <<"text", "tool_result", "text">>
    /\ RolesOf(ReqOutput) = <<"user", "tool", "user">>
    /\ ReqOutput[1].content.text = ReqBlocks[1].text
    /\ ReqOutput[2].tool_call_id = ReqBlocks[2].tool_use_id
    /\ ReqOutput[3].content.text = ReqBlocks[3].text

\* the runs of a block list: the blocks between two tool_result blocks
RECURSIVE RunsOf(_)
RunsOf(bl) ==
    IF bl = << >> THEN << << >> >>
    ELSE LET rest == RunsOf(Tail(bl))
         IN  IF Head(bl).type = "tool_result" THEN << << >> >> \o rest
             ELSE <<(<<Head(bl)>> \o rest[1])>> \o Tail(rest)
ToolUses(bl) == SelectSeq(bl, LAMBDA b : b.type = "tool_use")
TextsOfBlocks(bl) ==
    LET texts == SelectSeq(bl, LAMBDA b : b.type = "text")
    IN  [n \in 1..Len(texts) |-> texts[n].text]
TextsOfContent(content) ==
    CASE content.t = "string" -> <<content.text>>
      [] content.t = "parts" ->
            LET texts == SelectSeq(content.parts, LAMBDA part : part.type = "text")
            IN  [n \in 1..Len(texts) |-> texts[n].text]
      [] OTHER -> << >>
WithToolCalls(msgs) == SelectSeq(msgs, LAMBDA m : "tool_calls" \in DOMAIN m)

\* C16: the messages with tool calls in the output of a block-list message
\* are, in order, one per run of blocks that has a tool_use block: each is an
\* assistant message, has one tool call per tool_use block of its run with
\* the block's id and name in block order, and has the texts of the run's
\* text blocks, in order, as its content; a block list without a tool_result
\* and with a tool_use gives this one message only.
C16_ToolUsesInOneAssistantMessage ==
    ReqOfBlocks =>
        LET runs == SelectSeq(RunsOf(ReqBlocks), LAMBDA run : ToolUses(run) # << >>)
            out == WithToolCalls(ReqOutput)
        IN  /\ Len(out) = Len(runs)
            /\ \A n \in 1..Len(out) :
                  LET uses == ToolUses(runs[n])
                      calls == out[n].tool_calls
                  IN  /\ out[n].role = "assistant"
                      /\ Len(calls) = Len(uses)
                      /\ \A k \in 1..Len(calls) :
                            /\ calls[k].id = uses[k].id
                            /\ calls[k].name = uses[k].name
                            /\ calls[k].type = "function"
                      /\ TextsOfContent(out[n].content) = TextsOfBlocks(runs[n])
            /\ (ToolResults(ReqBlocks) = << >> /\ ToolUses(ReqBlocks) # << >>)
                   => Len(ReqOutput) = 1
C16_Witness ==
    /\ ReqOfBlocks
    /\ ReqMessage.role = "assistant"
    /\ TypesOf(ReqBlocks) = <<"text", "tool_use", "tool_use">>
    /\ ReqBlocks[2].id # ReqBlocks[3].id
    /\ Len(ReqOutput) = 1
    /\ ReqOutput[1].role = "assistant"
    /\ ReqOutput[1].content = [t |-> "string", text |-> ReqBlocks[1].text]
    /\ Len(ReqOutput[1].tool_calls) = 2
    /\ ReqOutput[1].tool_calls[1].id = ReqBlocks[2].id
    /\ ReqOutput[1].tool_calls[2].id = ReqBlocks[3].id

AllText(bl) == \A n \in 1..Len(bl) : bl[n].type = "text"

Dropped(block) == block.type \in {"thinking", "document"}
Kept(bl) == SelectSeq(bl, LAMBDA b : ~Dropped(b))
RECURSIVE AllTexts(_)
AllTexts(msgs) ==
    IF msgs = << >> THEN << >>
    ELSE TextsOfContent(Head(msgs).content) \o AllTexts(Tail(msgs))

\* C18: a call on a block-list message returns, and what it returns is what
\* the message without its thinking blocks and its blocks of unknown type is
\* mapped to; the texts of the output are those of the text and tool_result
\* blocks, so no output text comes from a dropped block.
C18_DroppedBlocksLeaveNoTrace ==
    /\ (call.fn = "mapAnthropicRequestToOpenAI" /\ call.state # "called") => call.state = "returned"
    /\ ReqOfBlocks =>
          /\ ReqOutput = MapMessage(BlockMessage(ReqMessage.role, Kept(ReqBlocks)))
          /\ \A n \in 1..Len(AllTexts(ReqOutput)) :
                /\ AllTexts(ReqOutput)[n] # ThinkingBlock.thinking
                /\ \E k \in 1..Len(ReqBlocks) :
                      \/ ReqBlocks[k].type = "text" /\ ReqBlocks[k].text = AllTexts(ReqOutput)[n]
                      \/ ReqBlocks[k].type = "tool_result"
                            /\ ReqBlocks[k].content.text = AllTexts(ReqOutput)[n]
C18_Witness ==
    /\ ReqOfBlocks
    /\ TypesOf(ReqBlocks) = <<"text", "thinking", "document">>
    /\ Len(ReqOutput) = 1
    /\ ReqOutput[1].content = [t |-> "string", text |-> ReqBlocks[1].text]

HasSegment(m) ==
    \/ m.content.t = "string"
    \/ m.content.t = "parts" /\ m.content.parts # << >>
    \/ "tool_calls" \in DOMAIN m /\ m.tool_calls # << >>

\* C19 as stated: the one message of the request gives at least one output
\* message, every output message has at least one segment, and a block-list
\* message without blocks, or with dropped blocks only, gives one message
\* with a single empty text.
C19_AsClaimed ==
    ReqReturned =>
        /\ Len(ReqOutput) >= 1
        /\ \A n \in 1..Len(ReqOutput) : HasSegment(ReqOutput[n])
        /\ (ReqMessage.content.t = "blocks" /\ Kept(ReqBlocks) = << >>) =>
               /\ Len(ReqOutput) = 1
               /\ TextsOfContent(ReqOutput[1].content) = <<"">>

\* --------------------------------------------------------------- responses
\* the response with every arguments text that is not JSON replaced by {}
Repaired(resp) ==
    IF ~resp.tool_calls.given THEN resp
    ELSE [resp EXCEPT !.tool_calls.list =
             [n \in 1..Len(@) |->
                 IF ParseArguments(@[n].arguments).ok THEN @[n]
                 ELSE [@[n] EXCEPT !.arguments = <<"{", "}">>]]]

\* C20 as stated: a call of mapOpenAIResponseToAnthropic returns, whatever
\* the arguments texts of the tool calls; a tool call whose arguments are not
\* JSON gets input {}, and the rest of the message is what valid arguments
\* give.
C20_AsClaimed ==
    (call.fn = "mapOpenAIResponseToAnthropic" /\ call.state # "called") =>
        /\ call.state = "returned"
        /\ call.value = mapOpenAIResponseToAnthropic(Repaired(call.arg)).value

ResReturned == call.fn = "mapOpenAIResponseToAnthropic" /\ call.state = "returned"
\* the tool calls of the response the mapper was called on
ResToolCalls == IF call.arg.tool_calls.given THEN call.arg.tool_calls.list ELSE << >>

\* C21 as stated: the content of every message mapOpenAIResponseToAnthropic
\* returns starts with a text block, whose text is the source content or the
\* empty string when the source content is null or missing, and goes on with
\* exactly one tool_use block per tool call of the response, in order, with
\* the id and the name of the call.
C21_AsClaimed ==
    ResReturned =>
        LET content == call.value.content
            toolCalls == ResToolCalls
        IN  /\ Len(content) = 1 + Len(toolCalls)
            /\ content[1].type = "text"
            /\ content[1].text = (IF Truthy(call.arg.content) THEN call.arg.content ELSE "")
            /\ \A n \in 1..Len(toolCalls) :
                  /\ content[n + 1].type = "tool_use"
                  /\ content[n + 1].id = toolCalls[n].id
                  /\ content[n + 1].name = toolCalls[n].name

GemReturned == call.fn = "mapOpenAIResponseToGemini" /\ call.state = "returned"
IsEmptyTextPart(part) == DOMAIN part = {"text"} /\ part.text = ""
\* the choice has no tool calls: none given, or an empty list
NoToolCalls(toolCalls) == ~toolCalls.given \/ toolCalls.list = << >>

\* C22: a completion with content null and no tool calls is mapped by
\* mapOpenAIResponseToAnthropic to a message with exactly one content block,
\* a text block with the empty string, and by mapOpenAIResponseToGemini to a
\* candidate with exactly one part, a text part with the empty string; and
\* every candidate mapOpenAIResponseToGemini returns has at least one part.
C22_EmptyTextForNullContent ==
    /\ (ResReturned /\ call.arg.content = JSNull /\ NoToolCalls(call.arg.tool_calls)) =>
           call.value.content = <<[type |-> "text", text |-> ""]>>
    /\ GemReturned =>
           /\ Len(call.value.candidates) = Len(call.arg.choices)
           /\ \A n \in 1..Len(call.value.candidates) :
                 LET choice == call.arg.choices[n]
                     parts == call.value.candidates[n].content.parts
                 IN  /\ Len(parts) >= 1
                     /\ (choice.content = JSNull /\ NoToolCalls(choice.tool_calls)) =>
                            (Len(parts) = 1 /\ IsEmptyTextPart(parts[1]))
C22_Witness ==
    /\ GemReturned
    /\ Len(call.arg.choices) = 1
    /\ call.arg.choices[1].content = JSNull
    /\ NoToolCalls(call.arg.choices[1].tool_calls)
    /\ call.value.candidates[1].content.parts = <<[text |-> ""]>>
\* the same completion through the Anthropic mapper
C22_WitnessAnthropic ==
    /\ ResReturned
    /\ call.arg.content = JSNull /\ NoToolCalls(call.arg.tool_calls)
    /\ call.value.content = <<[type |-> "text", text |-> ""]>>

\* the finish reasons of Anthropic as the specification lists them
StopReasonOf(reason) ==
    IF reason = "stop" THEN "end_turn"
    ELSE IF reason = "length" THEN "max_tokens"
    ELSE IF reason = "tool_calls" \/ reason = "function_call" THEN "tool_use"
    ELSE JSNull
MessageDeltasOf(evs) == SelectSeq(evs, LAMBDA e : e.type = "message_delta")

\* C23: mapFinishReason returns for every reason, a string, null or
\* undefined: end_turn for stop, max_tokens for length, tool_use for
\* tool_calls and function_call, null for content_filter and for everything
\* else; the stop_reason of the message mapOpenAIResponseToAnthropic returns
\* and the stop_reason of the message_delta the stream mapper gives for a
\* chunk with a finish reason are both that value.
C23_StopReasonTable ==
    /\ (call.fn = "mapFinishReason" /\ call.state # "called") =>
           /\ call.state = "returned"
           /\ call.value = StopReasonOf(call.arg)
           /\ call.arg \notin {"stop", "length", "tool_calls", "function_call"} =>
                  call.value = JSNull
    /\ ResReturned => call.value.stop_reason = StopReasonOf(call.arg.finish_reason)
    /\ (call.fn = "mapOpenAIStreamChunkToAnthropic" /\ call.state = "returned") =>
           LET deltas == MessageDeltasOf(call.value)
           IN  /\ \A n \in 1..Len(deltas) :
                     deltas[n].stop_reason = StopReasonOf(call.arg.finish_reason)
               /\ (call.arg.choices = "one" /\ call.arg.has_delta
                      /\ Truthy(call.arg.finish_reason)) => Len(deltas) = 1
C23_Witness ==
    /\ call.fn = "mapOpenAIStreamChunkToAnthropic" /\ call.state = "returned"
    /\ call.arg.finish_reason = "function_call"
    /\ Len(MessageDeltasOf(call.value)) = 1
    /\ MessageDeltasOf(call.value)[1].stop_reason = "tool_use"
\* a reason that is none of the API's, through the mapper itself
C23_WitnessUnknown ==
    /\ call.fn = "mapFinishReason" /\ call.state = "returned"
    /\ call.arg = "eos" /\ call.value = JSNull
\* a filtered completion, not streamed
C23_WitnessFiltered ==
    /\ ResReturned
    /\ call.arg.finish_reason = "content_filter" /\ call.value.stop_reason = JSNull

\* the finish reasons of Gemini as the specification lists them
FinishReasonOf(reason) ==
    IF reason = "stop" THEN "STOP"
    ELSE IF reason = "length" THEN "MAX_TOKENS"
    ELSE IF reason = "content_filter" THEN "SAFETY"
    ELSE IF reason = "tool_calls" \/ reason = "function_call" THEN "STOP"
    ELSE "OTHER"

\* C24: the Gemini mapFinishReason returns for every reason, a string, null
\* or undefined: STOP for stop, MAX_TOKENS for length, SAFETY for
\* content_filter, STOP for tool_calls and function_call, OTHER for everything
\* else; the finishReason of every candidate mapOpenAIResponseToGemini
\* returns is that value for its choice, and so is the finishReason of every
\* frame the stream mapper gives for a chunk with a finish reason.
C24_FinishReasonTable ==
    /\ (call.fn = "gemini/mapFinishReason" /\ call.state # "called") =>
           /\ call.state = "returned"
           /\ call.value = FinishReasonOf(call.arg)
    /\ GemReturned =>
           \A n \in 1..Len(call.value.candidates) :
               call.value.candidates[n].finishReason =
                   FinishReasonOf(call.arg.choices[n].finish_reason)
    /\ (call.fn = "mapOpenAIStreamChunkToGemini" /\ call.state = "returned") =>
           \A n \in 1..Len(call.value) :
               Truthy(call.arg.finish_reason) =>
                   call.value[n].finishReason = FinishReasonOf(call.arg.finish_reason)
C24_Witness ==
    /\ call.fn = "mapOpenAIStreamChunkToGemini" /\ call.state = "returned"
    /\ call.arg.finish_reason = "content_filter"
    /\ call.arg.content_kind = "string"
    /\ Len(call.value) = 1
    /\ Len(call.value[1].parts) = 1
    /\ call.value[1].finishReason = "SAFETY"
\* a completion of two choices, each with its own reason
C24_WitnessCandidates ==
    /\ GemReturned
    /\ Len(call.arg.choices) = 2
    /\ call.arg.choices[1].finish_reason = "eos"
    /\ call.value.candidates[1].finishReason = "OTHER"
    /\ call.value.candidates[2].finishReason = "MAX_TOKENS"

\* ----------------------------------------------------------- Gemini requests
GReqReturned == call.fn = "mapGeminiRequestToOpenAI" /\ call.state = "returned"
FunctionCallsOf(parts) == SelectSeq(parts, isFunctionCallPart)

\* C25 as stated: the functionCall parts mapOpenAIResponseToGemini or the
\* stream flush makes carry, one by one, the ids of the upstream's function
\* tool calls; and when the parts are sent back unchanged in a model turn,
\* the tool calls mapGeminiRequestToOpenAI emits have, one by one, the ids
\* and the names of those upstream calls.
C25_AsClaimed ==
    /\ GemReturned =>
           \A n \in 1..Len(call.value.candidates) :
               LET parts == FunctionCallsOf(call.value.candidates[n].content.parts)
                   toolCalls == FunctionToolCalls(call.arg.choices[n].tool_calls)
               IN  /\ Len(parts) = Len(toolCalls)
                   /\ \A k \in 1..Len(parts) :
                         /\ parts[k].functionCall.id = toolCalls[k].id
                         /\ parts[k].functionCall.name = toolCalls[k].name
    /\ (GReqReturned /\ "origin" \in DOMAIN call /\ call.origin # << >>) =>
           LET emitted == WithToolCalls(call.value.messages)
           IN  /\ Len(emitted) = 1
               /\ Len(emitted[1].tool_calls) = Len(call.origin)
               /\ \A k \in 1..Len(call.origin) :
                     /\ emitted[1].tool_calls[k].id = call.origin[k].id
                     /\ emitted[1].tool_calls[k].name = call.origin[k].name

\* C25: the functionCall parts mapOpenAIResponseToGemini or the stream flush
\* makes carry, one by one, the ids and names of the upstream's function tool
\* calls; and when the parts are sent back unchanged in a model turn, the
\* tool calls mapGeminiRequestToOpenAI emits have, one by one, the names of
\* those upstream calls and, for every call whose id is not the empty string,
\* its id.
C25_IdRoundTrip ==
    /\ GemReturned =>
           \A n \in 1..Len(call.value.candidates) :
               LET parts == FunctionCallsOf(call.value.candidates[n].content.parts)
                   toolCalls == FunctionToolCalls(call.arg.choices[n].tool_calls)
               IN  /\ Len(parts) = Len(toolCalls)
                   /\ \A k \in 1..Len(parts) :
                         /\ parts[k].functionCall.id = toolCalls[k].id
                         /\ parts[k].functionCall.name = toolCalls[k].name
    /\ (call.fn = "flush" /\ call.state = "returned") =>
           LET indices == SortedIndices(DOMAIN call.arg)
           IN  /\ Len(call.value.parts) = Len(indices)
               /\ \A k \in 1..Len(indices) :
                     /\ call.value.parts[k].functionCall.id = call.arg[indices[k]].id
                     /\ call.value.parts[k].functionCall.name = call.arg[indices[k]].name
    /\ (GReqReturned /\ "origin" \in DOMAIN call /\ call.origin # << >>) =>
           LET emitted == WithToolCalls(call.value.messages)
           IN  /\ Len(emitted) = 1
               /\ Len(emitted[1].tool_calls) = Len(call.origin)
               /\ \A k \in 1..Len(call.origin) :
                     /\ call.origin[k].id # "" =>
                            emitted[1].tool_calls[k].id = call.origin[k].id
                     /\ emitted[1].tool_calls[k].name = call.origin[k].name
C25_Witness ==
    /\ GReqReturned /\ "origin" \in DOMAIN call
    /\ Len(call.origin) = 2
    /\ call.origin[1].id = "call_1" /\ call.origin[2].id = "call_2"
    /\ Len(call.value.messages) = 1
    /\ call.value.messages[1].tool_calls[1].id = "call_1"
    /\ call.value.messages[1].tool_calls[1].name = call.origin[1].name
    /\ call.value.messages[1].tool_calls[2].id = "call_2"
\* the same for the calls of a stream
C25_WitnessFlush ==
    /\ GReqReturned /\ "origin" \in DOMAIN call
    /\ Len(call.origin) = 2
    /\ call.origin[1].id = "call_0" /\ call.origin[2].id = "call_n"
    /\ call.value.messages[1].tool_calls[2].id = "call_n"

ToolMessagesOf(msgs) == SelectSeq(msgs, LAMBDA msg : msg.role = "tool")
\* a model turn with one call of f answered by a turn with one response for
\* f, both parts with the same id of the caller or both without any
CallAndResponse ==
    /\ GReqReturned
    /\ Len(call.arg.contents) = 2
    /\ Len(call.arg.contents[1].parts) = 1 /\ Len(call.arg.contents[2].parts) = 1
    /\ LET fc == call.arg.contents[1].parts[1].functionCall
           fr == call.arg.contents[2].parts[1].functionResponse
       IN  /\ fc.name = fr.name
           /\ \/ Truthy(fc.id) /\ fc.id = fr.id
              \/ fc.id = Undefined /\ fr.id = Undefined

\* C26 as stated: for a function call of f and the function response for f,
\* the tool_call_id of the tool message is the id of the tool call, when the
\* caller gave both parts the id and when it gave none to either.
C26_AsClaimed ==
    CallAndResponse =>
        LET calls == WithToolCalls(call.value.messages)
            tools == ToolMessagesOf(call.value.messages)
        IN  /\ Len(calls) = 1 /\ Len(calls[1].tool_calls) = 1
            /\ Len(tools) = 1
            /\ tools[1].tool_call_id = calls[1].tool_calls[1].id

\* the ids the caller gave the function calls of a turn differ from one
\* another
CallerIdsDistinct(parts) ==
    LET fcs == FunctionCallsOf(parts)
    IN  \A i, j \in 1..Len(fcs) :
            (i # j /\ Truthy(fcs[i].functionCall.id) /\ Truthy(fcs[j].functionCall.id))
                => fcs[i].functionCall.id # fcs[j].functionCall.id

\* C27 as stated: in every assistant message mapGeminiRequestToOpenAI emits,
\* the ids of the tool calls differ from one another, also when function
\* calls of the same name have no id of the caller.
C27_AsClaimed ==
    (GReqReturned /\ \A t \in 1..Len(call.arg.contents) :
                         CallerIdsDistinct(call.arg.contents[t].parts)) =>
        \A n \in 1..Len(call.value.messages) :
            "tool_calls" \in DOMAIN call.value.messages[n] =>
                LET toolCalls == call.value.messages[n].tool_calls
                IN  \A i, j \in 1..Len(toolCalls) : i # j => toolCalls[i].id # toolCalls[j].id

\* a request of one turn that has function-call parts
OneTurnOfCalls ==
    /\ GReqReturned
    /\ Len(call.arg.contents) = 1
    /\ FunctionCallsOf(call.arg.contents[1].parts) # << >>

\* C28 as stated: a turn with k >= 1 function-call parts gives exactly one
\* assistant message with k tool calls in part order; its content is null
\* when the turn has no other part, and is the text of the text parts of the
\* turn when it has some, whatever other parts the turn has.
C28_AsClaimed ==
    OneTurnOfCalls =>
        LET parts == call.arg.contents[1].parts
            fcs == FunctionCallsOf(parts)
            texts == TextsOfParts(parts)
            out == call.value.messages
        IN  /\ Len(out) = 1
            /\ out[1].role = "assistant"
            /\ Len(out[1].tool_calls) = Len(fcs)
            /\ \A k \in 1..Len(fcs) : out[1].tool_calls[k].name = fcs[k].functionCall.name
            /\ Len(fcs) = Len(parts) => out[1].content.t = JSNull
            /\ texts # << >> =>
                   out[1].content = [t |-> "string", text |-> JoinLines(texts)]

ParameterPairs ==
    IF call.fn = "mapAnthropicRequestToOpenAI"
    THEN {<<"temperature", "temperature">>, <<"top_p", "top_p">>,
          <<"max_tokens", "max_completion_tokens">>, <<"stop_sequences", "stop">>}
    ELSE {<<"temperature", "temperature">>, <<"topP", "top_p">>,
          <<"maxOutputTokens", "max_completion_tokens">>, <<"stopSequences", "stop">>,
          <<"candidateCount", "n">>, <<"presencePenalty", "presence_penalty">>,
          <<"frequencyPenalty", "frequency_penalty">>,
          <<"responseLogprobs", "logprobs">>, <<"logprobs", "top_logprobs">>}
ParameterFields ==
    {"temperature", "top_p", "max_completion_tokens", "stop", "n", "presence_penalty",
     "frequency_penalty", "logprobs", "top_logprobs"}
\* what the source request set
ParametersSet ==
    IF call.fn = "mapAnthropicRequestToOpenAI" THEN call.arg.set
    ELSE IF call.arg.generationConfig.given THEN call.arg.generationConfig.set
    ELSE [k \in {} |-> 0]
ParametersMapped ==
    call.fn \in {"mapAnthropicRequestToOpenAI", "mapGeminiRequestToOpenAI"}
    /\ call.state = "returned"

\* C29: for both request mappers, each generation parameter field is in the
\* OpenAI request exactly when the source request set the parameter it
\* carries, and then holds the value the source gave; a parameter the source
\* did not set never appears.
C29_ParametersPassThrough ==
    ParametersMapped =>
        \A f \in ParameterFields :
            LET sources == {p \in ParameterPairs : p[2] = f /\ p[1] \in DOMAIN ParametersSet}
            IN  /\ (f \in DOMAIN call.value.fields) <=> (sources # {})
                /\ \A p \in sources : call.value.fields[f] = ParametersSet[p[1]]
\* a Gemini request that sets stop sequences and the two logprobs flags, and
\* nothing else, has been mapped
C29_Witness ==
    /\ GReqReturned
    /\ call.arg.generationConfig.given
    /\ DOMAIN call.arg.generationConfig.set = {"stopSequences", "responseLogprobs", "logprobs"}
    /\ call.arg.generationConfig.set["logprobs"] = 1
    /\ call.value.fields["top_logprobs"] = 1
    /\ call.value.fields["logprobs"] = TRUE
    /\ call.value.fields["stop"] = <<"END">>
    /\ "temperature" \notin DOMAIN call.value.fields
\* an Anthropic request that sets top_p and nothing else has been mapped
C29_WitnessAnthropic ==
    /\ ReqReturned
    /\ DOMAIN call.arg.set = {"top_p"}
    /\ DOMAIN call.value.fields = {"top_p"}
    /\ call.value.fields["top_p"] = call.arg.set["top_p"]

\* the messages before the n-th in the output: the system message, one for
\* each message of string content, and what each message of blocks gives
RECURSIVE OutputBefore(_, _)
OutputBefore(msgs, n) ==
    IF n = 1 THEN 0
    ELSE OutputBefore(msgs, n - 1)
         + (IF msgs[n - 1].content.t = "string" THEN 1 ELSE Len(MapMessage(msgs[n - 1])))
SystemMessages == IF Truthy(call.arg.system) THEN 1 ELSE 0
StringMessagesOf(msgs) == {n \in 1..Len(msgs) : msgs[n].content.t = "string"}

\* C31: every message of the request whose content is a bare string gives
\* exactly one message of the OpenAI request, with the same role and that
\* string as content, at the place its position among the request's messages
\* gives it, after the system message when there is one.
C31_StringContentUnchanged ==
    ReqReturned =>
        LET msgs == call.arg.messages
            out == call.value.messages
        IN  /\ Len(out) = SystemMessages + OutputBefore(msgs, Len(msgs) + 1)
            /\ \A n \in StringMessagesOf(msgs) :
                  LET at == SystemMessages + OutputBefore(msgs, n) + 1
                  IN  /\ at <= Len(out)
                      /\ out[at] = [role |-> msgs[n].role,
                                    content |-> [t |-> "string", text |-> msgs[n].content.text]]
\* a request with a system prompt, a message of blocks that gives two
\* messages, and then an assistant message of the empty string, was mapped
C31_Witness ==
    /\ ReqReturned
    /\ call.arg.system = "Be brief"
    /\ Len(call.arg.messages) = 3
    /\ call.arg.messages[1].content.t = "blocks"
    /\ Len(MapMessage(call.arg.messages[1])) = 2
    /\ call.arg.messages[2] = [role |-> "assistant", content |-> [t |-> "string", text |-> ""]]
    /\ call.arg.messages[3].content.t = "string"
    /\ Len(call.value.messages) = 5
    /\ call.value.messages[4] = [role |-> "assistant", content |-> [t |-> "string", text |-> ""]]

\* the request without its unsupported parts
SupportedOnly(geminiReq) ==
    [geminiReq EXCEPT !.contents =
        [n \in 1..Len(geminiReq.contents) |->
            Turn(geminiReq.contents[n].role,
                 SelectSeq(geminiReq.contents[n].parts, LAMBDA p : ~isUnsupportedPart(p)))]]
HasUnsupported(geminiReq) ==
    \E n \in 1..Len(geminiReq.contents) :
        \E i \in 1..Len(geminiReq.contents[n].parts) :
            isUnsupportedPart(geminiReq.contents[n].parts[i])

\* C32 as stated: the messages mapGeminiRequestToOpenAI gives for a request
\* with file data, executable code or code-execution result parts are the
\* messages it gives for the request without those parts.
C32_AsClaimed ==
    (GReqReturned /\ HasUnsupported(call.arg)) =>
        call.value.messages
            = mapGeminiRequestToOpenAI(SupportedOnly(call.arg), "gemini-pro", call.clock).messages

InHandler == call.fn \in Handlers
\* the inbound request has an error of the client: no base URL in the path, no
\* credential, or a body that is not JSON
NoBaseUrl == ~call.arg.path.route \/ call.arg.path.scheme \o call.arg.path.host = ""
NoCredential ==
    /\ call.arg.credentials.header \in {Undefined, ""}
    /\ call.arg.credentials.key = Undefined
    /\ ~(/\ call.fn = "handleAnthropic"
         /\ call.arg.credentials.authorization.given
         /\ call.arg.credentials.authorization.scheme = "Bearer"
         /\ call.arg.credentials.authorization.token # "")
ClientInputError == NoBaseUrl \/ NoCredential \/ ~call.arg.body.valid

\* C33: for an inbound request with a client-input error (no base URL in the
\* path, no credential, a body that is not valid JSON) the handler never
\* translates the request and never calls the upstream, and the reply it
\* returns is an error body with a 4xx status.
C33_ClientErrorsRejectedEarly ==
    (InHandler /\ ClientInputError) =>
        /\ call.translations = 0
        /\ call.fetches = 0
        /\ ~call.pump
        /\ call.state = "returned" =>
              /\ call.reply.kind = "error"
              /\ call.reply.status \in 400..499
\* a Gemini stream request with a base URL and a key whose body is not JSON
\* was answered with 400
C33_Witness ==
    /\ call.fn = "handleStream"
    /\ call.state = "returned"
    /\ ~NoBaseUrl /\ ~NoCredential /\ ~call.arg.body.valid
    /\ call.reply.status = 400 /\ call.reply.message = "Invalid JSON body"
    /\ call.fetches = 0
\* an Anthropic request whose only credential is a Basic authorization header
\* was answered with 401
C33_WitnessKey ==
    /\ call.fn = "handleAnthropic"
    /\ call.state = "returned"
    /\ ~NoBaseUrl /\ NoCredential /\ call.arg.body.valid
    /\ call.arg.credentials.authorization.given
    /\ call.reply.status = 401
    /\ call.translations = 0

\* the upstream answered with a status outside 2xx and a body text that was
\* read
UpstreamRefused ==
    /\ InHandler
    /\ call.fetches > 0
    /\ call.arg.upstream.kind = "response"
    /\ call.arg.upstream.status \notin 200..299
    /\ call.arg.upstream.readable

C34_WitnessPump ==
    /\ call.fn = "handleStream"
    /\ call.state = "returned"
    /\ call.pump /\ call.fetches = 1 /\ call.reply.kind = "stream"

\* the requests the queue-based mapper has mapped so far
QueueMapped == IF call.fn = "mapper/mapGeminiRequestToOpenAI" THEN 1..Len(call.value) ELSE {}
\* the function calls of a request and the function responses it answers
\* (those of the turns without a function call), in the order of the request,
\* each with its function name
RECURSIVE QueueEvents(_)
QueueEvents(contents) ==
    IF contents = << >> THEN << >>
    ELSE LET parts == Head(contents).parts
             calls == SelectSeq(parts, isFunctionCallPart)
             responses == SelectSeq(parts, isFunctionResponsePart)
         IN  (IF calls # << >>
              THEN [n \in 1..Len(calls) |-> [kind |-> "call", name |-> calls[n].functionCall.name]]
              ELSE [n \in 1..Len(responses) |->
                       [kind |-> "response", name |-> responses[n].functionResponse.name]])
             \o QueueEvents(Tail(contents))
\* the ids the output gives to the function calls and to the function
\* responses, in the order of the output
RECURSIVE QueueCallIds(_)
QueueCallIds(messages) ==
    IF messages = << >> THEN << >>
    ELSE (IF "tool_calls" \in DOMAIN Head(messages)
          THEN [n \in 1..Len(Head(messages).tool_calls) |-> Head(messages).tool_calls[n].id]
          ELSE << >>)
         \o QueueCallIds(Tail(messages))
QueueResponseIds(messages) ==
    LET tool == SelectSeq(messages, LAMBDA m : m.role = "tool")
    IN  [n \in 1..Len(tool) |-> tool[n].tool_call_id]
\* among the first n evs: the calls, and the responses, of name f
EventsOf(evs, n, kind, f) ==
    {m \in 1..n : evs[m].kind = kind /\ evs[m].name = f}
\* the place of event n among the evs of its kind
PlaceOf(evs, n) == Cardinality({m \in 1..n : evs[m].kind = evs[n].kind})
\* the id of the k-th call of f among the first n evs
IdOfCall(evs, ids, n, f, k) ==
    LET c == CHOOSE m \in EventsOf(evs, n, "call", f) :
                 Cardinality(EventsOf(evs, m, "call", f)) = k
    IN  ids[PlaceOf(evs, c)]
\* how many of the responses of f among the first n evs found an id
RECURSIVE Served(_, _, _)
Served(evs, n, f) ==
    IF n = 0 THEN 0
    ELSE Served(evs, n - 1, f)
         + (IF /\ evs[n].kind = "response" /\ evs[n].name = f
               /\ Cardinality(EventsOf(evs, n - 1, "call", f)) > Served(evs, n - 1, f)
            THEN 1 ELSE 0)

\* C35 as stated: in every request the k-th function response of name f gets
\* the id of the k-th function call of f before it, and a function response
\* gets 'call_unknown' when every id recorded for f was given out.
C35_AsClaimed ==
    \A q \in QueueMapped :
        LET evs == QueueEvents(call.arg[q].contents)
            callIds == QueueCallIds(call.value[q].messages)
            responseIds == QueueResponseIds(call.value[q].messages)
        IN  \A n \in 1..Len(evs) :
                evs[n].kind = "response" =>
                    LET f == evs[n].name
                        k == Cardinality(EventsOf(evs, n, "response", f))
                        calls == Cardinality(EventsOf(evs, n, "call", f))
                        id == responseIds[PlaceOf(evs, n)]
                    IN  /\ k <= calls => id = IdOfCall(evs, callIds, n, f, k)
                        /\ calls <= Served(evs, n - 1, f) => id = "call_unknown"

\* C35: in every request the ids are given out first in, first out for each
\* function name: a function response of name f, in a turn without function
\* calls, gets the oldest id recorded for f in this request that no earlier
\* response got, and 'call_unknown' when there is none; ids recorded in an
\* earlier request are never given.
C35_FirstInFirstOut ==
    \A q \in QueueMapped :
        LET evs == QueueEvents(call.arg[q].contents)
            callIds == QueueCallIds(call.value[q].messages)
            responseIds == QueueResponseIds(call.value[q].messages)
        IN  /\ Len(callIds) = Cardinality({n \in 1..Len(evs) : evs[n].kind = "call"})
            /\ Len(responseIds)
                   = Cardinality({n \in 1..Len(evs) : evs[n].kind = "response"})
            /\ \A n \in 1..Len(evs) :
                  evs[n].kind = "response" =>
                      LET f == evs[n].name
                          served == Served(evs, n - 1, f)
                          calls == Cardinality(EventsOf(evs, n, "call", f))
                          id == responseIds[PlaceOf(evs, n)]
                      IN  id = IF calls > served
                               THEN IdOfCall(evs, callIds, n, f, served + 1)
                               ELSE "call_unknown"
\* two calls of f with the ids call_1 and call_2, then two responses of f that
\* got call_1 and call_2
C35_Witness ==
    /\ call.fn = "mapper/mapGeminiRequestToOpenAI"
    /\ call.state = "returned"
    /\ Len(call.arg) = 1
    /\ Len(call.arg[1].contents) = 2
    /\ QueueCallIds(call.value[1].messages) = <<"call_1", "call_2">>
    /\ QueueResponseIds(call.value[1].messages) = <<"call_1", "call_2">>
\* a request of one function response, mapped after a request that recorded
\* an id for the same function, got 'call_unknown'
C35_WitnessNextRequest ==
    /\ call.fn = "mapper/mapGeminiRequestToOpenAI"
    /\ call.state = "returned"
    /\ Len(call.arg) = 2
    /\ QueueCallIds(call.value[1].messages) = <<"call_1">>
    /\ call.arg[2].contents[1].parts = <<QueueResponsePart("f")>>
    /\ QueueResponseIds(call.value[2].messages) = <<"call_unknown">>

\* the places of the line feeds of a body, and the text between two of them
LineFeedsOf(body) == {i \in 1..Len(body) : body[i] = LineFeed}
WholeLineAt(body, i) ==
    LET before == {j \in LineFeedsOf(body) : j < i}
        from == IF before = {} THEN 1 ELSE (CHOOSE j \in before : \A k \in before : k <= j) + 1
    IN  SubSeq(body, from, i - 1)
\* the lines of the body that end with a line feed, in order
WholeLines(body) ==
    LET feeds == SortedIndices(LineFeedsOf(body))
    IN  [n \in 1..Len(feeds) |-> WholeLineAt(body, feeds[n])]

\* C36: what a pump has written when the body ends is what the lines of the
\* whole body give, each handled once and in order, however the body was cut
\* into reads; while it reads, what it has written is what the lines of the
\* part read so far give.
C36_ReadsDoNotMatter ==
    call.fn = "pump" =>
        LET read == SubSeq(call.arg, 1, Len(call.arg) - Len(call.unread))
        IN  /\ call.out = HandleLines(mode, WholeLines(read), EmptyBuffer).out
            /\ call.state = "returned" =>
                  call.out = HandleLines(mode, WholeLines(call.arg), EmptyBuffer).out
\* the body was read to its end in blocks that cut a data line in two, and
\* the line was written once
C36_Witness ==
    /\ call.fn = "pump" /\ call.state = "returned"
    /\ mode = "anthropic"
    /\ call.arg = <<"data", ": ", "{", "a", "}", LineFeed, "data", ": ", "{", "f", "}", LineFeed>>
    /\ Len(call.out) = 4
    /\ call.out[1] = TextDelta("Hi")
\* a block ended inside a data line: the line waits in the buffer
C36_WitnessCut ==
    /\ call.fn = "pump" /\ call.state = "called"
    /\ mode = "gemini"
    /\ call.buffer = <<"data", ": ", "{">>
    /\ call.out # << >>

\* C37 as stated: in an Anthropic stream message_stop is written at most
\* once, and no content_block_start, content_block_delta or message_delta is
\* written after it.
C37_AsClaimed ==
    mode = "anthropic" =>
        \A i, j \in 1..Len(written) :
            (written[i].type = "message_stop" /\ i < j) =>
                written[j].type \notin {"message_stop", "content_block_start",
                                        "content_block_delta", "message_delta"}

\* C38 as stated: an Anthropic stream whose upstream reported done while the
\* client was still connected has written content_block_stop, message_delta
\* and message_stop when the writer is closed.
C38_AsClaimed ==
    (mode = "anthropic" /\ closed /\ upstream = "ended" /\ clientOpen) =>
        \A type \in {"content_block_stop", "message_delta", "message_stop"} :
            \E n \in 1..Len(written) : written[n].type = type

\* C39 as stated: in an Anthropic stream every tool_use block is opened at an
\* index that is not 0, the index of the text block, and that no other block
\* of the stream was opened at.
C39_AsClaimed ==
    mode = "anthropic" =>
        \A n \in 1..Len(written) :
            IsToolStart(written[n]) =>
                /\ written[n].index # 0
                /\ \A m \in 1..Len(written) :
                      (m # n /\ written[m].type = "content_block_start")
                          => written[m].index # written[n].index

\* C40 as stated: once the pump of gemini/sse.ts has handled a chunk whose
\* first choice has a delta and a finish reason, with the client connected,
\* a frame with a finishReason has been written.
C40_AsClaimed ==
    (/\ mode = "gemini" /\ clientOpen /\ pc \in {"line", "read"}
     /\ HasDelta(chunk) /\ Truthy(chunk.finish_reason)) =>
        \E n \in 1..Len(written) : written[n].finishReason # Undefined
====
